---- MODULE Spec2Model ----
(***************************************************************************)
(* Model of the progressive streaming coordinator of Interlude             *)
(* (src-tauri/src/stream_cache.rs): chunk planning, chunk fetching into    *)
(* the cache directory, the per-track stream state behind one mutex, the   *)
(* two download workers, seek reprioritisation and cleanup; and of its     *)
(* playback engine (src-tauri/src/audio.rs): the command channel, the      *)
(* audio thread, the sample buffer, the play cursor and the output         *)
(* callback.                                                               *)
(*                                                                         *)
(* One track id is modelled.  Rust indices are 0-based; a Rust vector v is *)
(* a TLA+ sequence whose element v[i] is At(v, i).                         *)
(***************************************************************************)
EXTENDS Integers, Sequences, FiniteSets, TLC

VARIABLES
    progressive_streams,  \* HashMap<String, ProgressiveStreamState>: a function on a subset of {TrackId}
    files,                \* the cache directory: path -> content of the file at that path
    fetch,                \* per task: position in its code and the locals it holds across awaits
    downloading_chunks,   \* the in-flight HashSet shared by the two workers of one call
    start_call,           \* locals and result of start_progressive_stream
    rem_call,             \* locals of download_all_remaining_chunks
    mt_call,              \* snapshot taken by download_all_chunks_multithreaded
    poisoned,             \* the std Mutex around progressive_streams is poisoned
    calls,                \* number of commands issued so far
    plan,                 \* inputs and result of the pure functions (PlanSpec, ConfigSpec)
    next_call,            \* locals and result of download_next_chunk
    fin_call,             \* locals and result of finalize_stream, and what the transcoder was given
    state,                \* Arc<RwLock<PlaybackState>>
    sample_buffer,        \* Arc<RwLock<Vec<f32>>>: the decoded samples of the loaded track
    buffer_position,      \* Arc<RwLock<usize>>: the play cursor, an index into sample_buffer
    stream,               \* AudioThread.stream: the output stream the audio thread owns
    device,               \* AudioThread.device
    output_sample_rate,   \* AudioThread.output_sample_rate
    output_channels,      \* AudioThread.output_channels
    command_queue,        \* the mpsc channel: commands sent and not yet received
    connected,            \* the AudioEngine, owner of the only Sender, has not been dropped
    thread,               \* the audio thread: position in run() and the locals of its handler
    callback,             \* the output callback: position, captured values, locals, the slice it filled
    sent,                 \* every command sent, in order, with the result its caller got
    applied,              \* every command received, in order, with the result of its handler
    held,                 \* per lock: the threads that hold it, each with the mode it holds it in
    locking               \* per thread: the lock operations of the code it runs, and how far it is

audioVars == <<state, sample_buffer, buffer_position, stream, device, output_sample_rate,
               output_channels, command_queue, connected, thread, callback, sent, applied>>

lockVars == <<held, locking>>

vars == <<progressive_streams, files, fetch, downloading_chunks, start_call,
          rem_call, mt_call, poisoned, calls, plan, next_call, fin_call, audioVars, lockVars>>

streamVars == <<progressive_streams, files, fetch, downloading_chunks, start_call,
                rem_call, mt_call, poisoned, calls, next_call, fin_call>>

(***************************************************************************)
(* Bounds of the model.                                                    *)
(***************************************************************************)
MaxCalls == 3        \* commands issued in one behaviour
MaxRepeat == 9       \* largest r attribute of an S element in a manifest
MaxTarget == 3       \* largest target index passed to reprioritize_for_seek
MaxPlanN == 12       \* PlanSpec: largest total_segments
MaxPlanF == 3        \* PlanSpec: largest first_chunk_segments
MaxPlanR == 4        \* PlanSpec: largest segments_per_chunk
MaxPlanPast == 5     \* PlanSpec: positions up to this many segments past the end
QuarterSeconds == 4  \* positions are multiples of 1/QuarterSeconds second
MaxConfigs == 2      \* ConfigSpec: most config ranges a device supports
MaxRate == 3         \* ConfigSpec: largest sample rate of a source or of a config range
MaxCommands == 3     \* audio commands sent in one behaviour
TrackRate == 1       \* sample rate of the audio files, in frames per second
TrackChannels == 2   \* channels of the audio files
TrackFrames == 2     \* frames of the track file
ChunkFrames == 1     \* frames of the chunk file
CallbackFrames == 1  \* frames of the slice one output callback fills
SeekFar == 9         \* a seek target beyond every duration, in half seconds

(***************************************************************************)
(* Program constants.                                                      *)
(***************************************************************************)
MIN_SEGMENTS_FOR_FULL_TRACK == 20
FIRST_CHUNK_SEGMENTS == 2
REGULAR_CHUNK_SEGMENTS == 8
SEGMENT_DURATION == 4
DEFAULT_SAMPLE_RATE == 44100
DEFAULT_CHANNELS == 2

TrackId == "t"
InitCell == 0        \* the bytes of the init segment
HoleCell == -1       \* bytes never written (a hole left by a write past the end)
NoDuration == -1     \* expected_duration_ms = None
NoChunk == -1        \* Option<usize>::None, PathBuf::new()

At(v, i) == v[i + 1]
Min(a, b) == IF a < b THEN a ELSE b
Max(a, b) == IF a > b THEN a ELSE b
Range(s) == {s[i] : i \in 1..Len(s)}

(***************************************************************************)
(* Chunk plan: ProgressiveStreamState::total_chunks and                    *)
(* get_chunk_segment_range.  st is any record with the three plan fields.  *)
(***************************************************************************)
total_chunks(st) ==
    IF st.total_segments <= st.first_chunk_segments
    THEN 1
    ELSE LET remaining == st.total_segments - st.first_chunk_segments
         IN  1 + ((remaining + st.segments_per_chunk - 1) \div st.segments_per_chunk)

\* Faulty variant of get_chunk_segment_range: the end of a regular chunk is not
\* capped at total_segments.
get_chunk_segment_range_uncapped(st, chunk_index) ==
    IF chunk_index = 0
    THEN <<0, Min(st.first_chunk_segments, st.total_segments)>>
    ELSE LET start == st.first_chunk_segments + (chunk_index - 1) * st.segments_per_chunk
         IN  <<start, start + st.segments_per_chunk>>

get_chunk_segment_range(st, chunk_index) ==
    IF chunk_index = 0
    THEN <<0, Min(st.first_chunk_segments, st.total_segments)>>
    ELSE LET offset == st.first_chunk_segments
             chunk_offset == (chunk_index - 1) * st.segments_per_chunk
             start == offset + chunk_offset
             end == Min(start + st.segments_per_chunk, st.total_segments)
         IN  <<start, end>>

(***************************************************************************)
(* get_chunk_for_position.  The position is a count q of fractions of a    *)
(* second (position_seconds = q / QuarterSeconds), so that the f64         *)
(* comparison, subtraction and floor are exact integer arithmetic.         *)
(***************************************************************************)
\* Faulty variant of get_chunk_for_position: the end of the first chunk still
\* counts as the first chunk.
get_chunk_for_position_inclusive(st, q) ==
    LET first_chunk_duration == st.first_chunk_segments * SEGMENT_DURATION * QuarterSeconds
        regular_chunk_duration == st.segments_per_chunk * SEGMENT_DURATION * QuarterSeconds
    IN  IF q <= first_chunk_duration
        THEN 0
        ELSE Min(1 + ((q - first_chunk_duration) \div regular_chunk_duration),
                 Max(total_chunks(st) - 1, 0))

get_chunk_for_position(st, q) ==
    LET first_chunk_duration == st.first_chunk_segments * SEGMENT_DURATION * QuarterSeconds
        regular_chunk_duration == st.segments_per_chunk * SEGMENT_DURATION * QuarterSeconds
    IN  IF q < first_chunk_duration
        THEN 0
        ELSE LET position_after_first == q - first_chunk_duration
                 chunk_index == 1 + (position_after_first \div regular_chunk_duration)
             IN  Min(chunk_index, Max(total_chunks(st) - 1, 0))

(***************************************************************************)
(* Manifests.  A manifest is what the gateway returned: whether the text   *)
(* is valid base64, whether the decoded text is JSON (starts with '{'),    *)
(* whether the SegmentTemplate carries initialization= and media=, and the *)
(* r attributes of the S elements of its SegmentTimeline.                  *)
(***************************************************************************)
Timelines == {<<>>, <<0>>, <<0, 1>>, <<0, MaxRepeat>>}

Manifests ==
    [b64_ok : {TRUE}, json : {FALSE}, init : {TRUE}, media : {TRUE}, timeline : Timelines]
    \cup {[b64_ok |-> FALSE, json |-> FALSE, init |-> TRUE, media |-> TRUE, timeline |-> <<0, 1>>],
          [b64_ok |-> TRUE, json |-> TRUE, init |-> FALSE, media |-> FALSE, timeline |-> <<>>],
          [b64_ok |-> TRUE, json |-> FALSE, init |-> FALSE, media |-> TRUE, timeline |-> <<0, 1>>],
          [b64_ok |-> TRUE, json |-> FALSE, init |-> TRUE, media |-> FALSE, timeline |-> <<0, 1>>]}

RECURSIVE SumRepeats(_)
SumRepeats(tl) == IF tl = <<>> THEN 0 ELSE (Head(tl) + 1) + SumRepeats(Tail(tl))

\* expected_duration_ms values: None, 0, and for every segment count n of the
\* timelines the durations around the threshold of the preview check: the
\* shortest duration of 2n expected segments, the longest of 2n + 1 and the
\* shortest of 2n + 2.
Durations ==
    {NoDuration, 0} \cup
    UNION {{1000 * SEGMENT_DURATION * (2 * n),
            1000 * SEGMENT_DURATION * (2 * n + 1) + 1000 * SEGMENT_DURATION - 1,
            1000 * SEGMENT_DURATION * (2 * n + 2)} :
              n \in {SumRepeats(tl) : tl \in Timelines \ {<<>>}}}

\* Faulty variant of parse_dash_manifest: a timeline without segments is accepted.
parse_dash_manifest_empty_ok(m) ==
    LET segment_count == SumRepeats(m.timeline)
    IN  IF ~m.init THEN [ok |-> FALSE, err |-> "NoInitUrl", media_urls |-> <<>>]
        ELSE IF ~m.media THEN [ok |-> FALSE, err |-> "NoMediaTemplate", media_urls |-> <<>>]
        ELSE [ok |-> TRUE, err |-> "", media_urls |-> [i \in 1..segment_count |-> i]]

\* parse_dash_manifest: Err(..) is a string, Ok((init_url, media_urls)) is the
\* list of $Number$ values of the media urls, 1..segment_count.
parse_dash_manifest(m) ==
    LET segment_count == SumRepeats(m.timeline)
    IN  IF ~m.init THEN [ok |-> FALSE, err |-> "NoInitUrl", media_urls |-> <<>>]
        ELSE IF ~m.media THEN [ok |-> FALSE, err |-> "NoMediaTemplate", media_urls |-> <<>>]
        ELSE IF segment_count = 0 THEN [ok |-> FALSE, err |-> "NoSegments", media_urls |-> <<>>]
        ELSE [ok |-> TRUE, err |-> "", media_urls |-> [i \in 1..segment_count |-> i]]

\* Faulty variant of the preview check: the segment count is compared with a
\* quarter of the expected count.
IsPreviewManifestQuarter(total_segments, expected_duration_ms) ==
    /\ total_segments < MIN_SEGMENTS_FOR_FULL_TRACK
    /\ IF expected_duration_ms # NoDuration
       THEN total_segments < ((expected_duration_ms \div 1000) \div SEGMENT_DURATION) \div 4
       ELSE TRUE

\* The preview check of start_progressive_stream.
IsPreviewManifest(total_segments, expected_duration_ms) ==
    /\ total_segments < MIN_SEGMENTS_FOR_FULL_TRACK
    /\ IF expected_duration_ms # NoDuration
       THEN LET expected_seconds == expected_duration_ms \div 1000
                expected_segments == expected_seconds \div SEGMENT_DURATION
            IN  total_segments < expected_segments \div 2
       ELSE TRUE

\* What start_progressive_stream decides before its first await.
StartValidation(m, d) ==
    IF ~m.b64_ok THEN "DecodeError"
    ELSE IF m.json THEN "BtsFormat"
    ELSE LET parsed == parse_dash_manifest(m)
         IN  IF ~parsed.ok THEN parsed.err
             ELSE IF IsPreviewManifest(Len(parsed.media_urls), d) THEN "PreviewManifest"
             ELSE "proceed"

(***************************************************************************)
(* State.                                                                  *)
(***************************************************************************)
Tasks == {"start", "next", "rem", "w0", "w1", "cleanup", "fin"}
Workers == {"w0", "w1"}

has_active_stream == TrackId \in DOMAIN progressive_streams
Stream == progressive_streams[TrackId]

IdleTask == [pc |-> "idle", chunk |-> NoChunk, start |-> 0, end |-> 0, h |-> "none"]

NoFiles == [p \in {} |-> <<>>]
NoStreams == [t \in {} |-> 0]

TempPath(i) == <<"tmp", i>>      \* cache_dir/{id}_{i}.m4a.tmp
ChunkPath(i) == <<"m4a", i>>
ConcatPath == <<"concat", 0>>     \* cache_dir/{id}_{i}.m4a

PlaceholderChunk(i) ==
    [chunk_index |-> i, file_path |-> NoChunk, segment_start |-> 0, segment_end |-> 0,
     duration_seconds |-> 0, is_ready |-> FALSE]

ReadyChunk(i, s, e) ==
    [chunk_index |-> i, file_path |-> i, segment_start |-> s, segment_end |-> e,
     duration_seconds |-> (e - s) * SEGMENT_DURATION, is_ready |-> TRUE]

\* chunk_idx < state.chunks.len() && state.chunks[chunk_idx].is_ready
IsReady(st, i) == i < Len(st.chunks) /\ At(st.chunks, i).is_ready

\* while chunks.len() <= idx { push placeholder }; chunks[idx] = chunk
PutChunk(chunks, chunk) ==
    LET idx == chunk.chunk_index
        n == Max(Len(chunks), idx + 1)
    IN  [j \in 1..n |-> IF j = idx + 1 THEN chunk
                        ELSE IF j <= Len(chunks) THEN chunks[j]
                        ELSE PlaceholderChunk(j - 1)]

NewStreamState(media_urls) ==
    LET base == [total_segments |-> Len(media_urls),
                 segments_per_chunk |-> REGULAR_CHUNK_SEGMENTS,
                 first_chunk_segments |-> FIRST_CHUNK_SEGMENTS]
        remaining_segments == Max(Len(media_urls) - FIRST_CHUNK_SEGMENTS, 0)
        remaining_chunks ==
            (remaining_segments + REGULAR_CHUNK_SEGMENTS - 1) \div REGULAR_CHUNK_SEGMENTS
        tc == 1 + remaining_chunks
    IN  [total_segments |-> base.total_segments,
         segments_per_chunk |-> base.segments_per_chunk,
         first_chunk_segments |-> base.first_chunk_segments,
         chunks |-> <<>>,
         media_urls |-> media_urls,
         current_chunk |-> 0,
         is_complete |-> FALSE,
         priority_chunk |-> NoChunk,
         download_queue |-> [j \in 1..tc |-> j - 1],
         needs_reprioritize |-> FALSE]

\* A plan the pure functions are applied to: no function applied yet.
NewPlan(n, f, r) ==
    [total_segments |-> n, first_chunk_segments |-> f, segments_per_chunk |-> r,
     op |-> "none", count |-> 0, ranges |-> <<>>, q |-> 0, chunk |-> 0]

PlanInit == plan = NewPlan(1, FIRST_CHUNK_SEGMENTS, REGULAR_CHUNK_SEGMENTS)

\* start_progressive_stream: no result yet; the fields total_chunks and
\* first_chunk_path are those of the ProgressiveStreamResult it returns.
StartReturn(result) ==
    [result |-> result, media_urls |-> <<>>, total_chunks |-> 0, first_chunk_path |-> NoChunk]

NextReset ==
    [result |-> "none", chunk_index |-> NoChunk, total_chunks |-> 0,
     chunk_path |-> NoChunk, is_last |-> FALSE, is_ready |-> FALSE]

FinReset == [result |-> "none", chunk_paths |-> <<>>, transcoded |-> <<>>]

RemReset == [total_chunks |-> 0, already |-> {}, idx |-> 0]

MtReset == [active |-> FALSE, total_segments |-> 0, first_chunk_segments |-> 0,
            segments_per_chunk |-> 0, media_urls |-> <<>>]

(***************************************************************************)
(* The playback engine (audio.rs).  Times are rationals [n, d] = n / d     *)
(* seconds.  PlaybackState is modelled without bit_depth, shuffle and      *)
(* repeat_mode, which the audio thread and the callback never read.        *)
(***************************************************************************)
Rat(n, d) == [n |-> n, d |-> d]
RatLeq(a, b) == a.n * b.d <= b.n * a.d
RatEq(a, b) == a.n * b.d = b.n * a.d

NoTrack == ""        \* current_track = None, and the path of a command without one
NoStream == "None"   \* AudioThread.stream = None
NoFormat == 0        \* output_sample_rate = None, output_channels = None

\* The audio files of the model: a track and a chunk that decode, a path
\* with no file, a file the probe rejects and a file without an audio track.
TrackFile == "track.flac"
ChunkFile == "chunk.flac"
MissingFile == "missing.flac"
GarbledFile == "garbled.flac"
TagsOnlyFile == "tagsonly.flac"
AudioFiles == {TrackFile, ChunkFile}
BadFiles == {MissingFile, GarbledFile, TagsOnlyFile}

\* The samples a file decodes to: non-zero and different at every index of
\* every file.
DecodedSamples(path) ==
    IF path = TrackFile
    THEN [k \in 1..(TrackFrames * TrackChannels) |-> k]
    ELSE [k \in 1..(ChunkFrames * TrackChannels) |-> 100 + k]

\* What opening, probing and decoding the file at path gives: the error the
\* handlers return, or the samples with their format.
OpenAndDecode(path) ==
    IF path = MissingFile THEN [err |-> "FileNotFound"]
    ELSE IF path = GarbledFile THEN [err |-> "Decode"]
    ELSE IF path = TagsOnlyFile THEN [err |-> "UnsupportedFormat"]
    ELSE [err |-> "none", samples |-> DecodedSamples(path),
          sample_rate |-> TrackRate, channels |-> TrackChannels]

\* The audio devices: one the host lists, and a name the host does not list.
ListedDevice == "speakers"
UnlistedDevice == "unplugged"
NoDevice == "None"

AudioCommand(op, path, n) == [op |-> op, path |-> path, n |-> n]

IdleThread == [pc |-> "recv", cmd |-> AudioCommand("none", NoTrack, 0), samples |-> <<>>,
               built |-> FALSE, old_len |-> 0, gapless |-> FALSE]

IdleCallback == [pc |-> "idle", sr |-> NoFormat, channel_count |-> NoFormat,
                 finished_this_frame |-> FALSE, current_pos |-> Rat(0, 1), data |-> <<>>]

\* AudioEngine::new and AudioThread::new: nothing loaded, no stream, the
\* host's default output device, an empty channel.
NewEngine ==
    /\ state = [is_playing |-> FALSE, current_track |-> NoTrack, position |-> Rat(0, 1),
                duration |-> Rat(0, 1), volume |-> 1, sample_rate |-> DEFAULT_SAMPLE_RATE,
                channels |-> DEFAULT_CHANNELS, track_finished |-> FALSE]
    /\ sample_buffer = <<>>
    /\ buffer_position = 0
    /\ stream = NoStream
    /\ device = ListedDevice
    /\ output_sample_rate = NoFormat
    /\ output_channels = NoFormat
    /\ command_queue = <<>>
    /\ connected = TRUE
    /\ thread = IdleThread
    /\ callback = IdleCallback
    /\ sent = <<>>
    /\ applied = <<>>

\* The locks of the program and the threads that take them.
Locks == {"sample_buffer", "buffer_position", "state", "audio_engine",
          "downloading_chunks", "progressive_streams"}
Threads == {"callback", "audio_thread", "get_state", "w0", "w1", "command"}

\* A thread that runs no code that takes a lock.
NotLocking == [prog |-> <<>>, pc |-> 1]

\* No lock is held and no thread is in code that takes one.
NewLocks ==
    /\ held = [l \in Locks |-> {}]
    /\ locking = [t \in Threads |-> NotLocking]

\* StreamCache::new: no stream, nothing running.  The cache directory is empty.
NewCache ==
    /\ progressive_streams = NoStreams
    /\ files = NoFiles
    /\ fetch = [p \in Tasks |-> IdleTask]
    /\ downloading_chunks = {}
    /\ start_call = StartReturn("none")
    /\ next_call = NextReset
    /\ fin_call = FinReset
    /\ rem_call = RemReset
    /\ mt_call = MtReset
    /\ poisoned = FALSE
    /\ calls = 0
    /\ NewEngine
    /\ NewLocks

Init == NewCache /\ PlanInit

(***************************************************************************)
(* The cache directory.  File::create truncates the file at the path (or   *)
(* creates it) and returns a handle with its own offset; a handle follows  *)
(* the file it opened through renames.  A task's handle h says where the   *)
(* file it opened now is: "T" at the temp path of its chunk, "F" at the    *)
(* final path (another task renamed it there), "orphan" when the file was  *)
(* removed or replaced.                                                    *)
(***************************************************************************)
Exists(path) == path \in DOMAIN files

WithFile(fs, path, content) ==
    [q \in (DOMAIN fs) \cup {path} |-> IF q = path THEN content ELSE fs[q]]

WithoutFiles(fs, paths) == [q \in (DOMAIN fs) \ paths |-> fs[q]]

\* write_all of one cell at offset off through a handle on content c
WriteAt(c, off, cell) ==
    [j \in 1..Max(Len(c), off + 1) |->
        IF j = off + 1 THEN cell ELSE IF j <= Len(c) THEN c[j] ELSE HoleCell]

\* init segment followed by the segments start+1 .. end ($Number$ values)
ChunkContent(start, end) ==
    [j \in 1..(1 + end - start) |-> IF j = 1 THEN InitCell ELSE start + j - 1]

\* The handles of the other tasks after the temp file of chunk c was renamed
\* to the final path.
AfterRename(f, c) ==
    [q \in Tasks |->
        IF f[q].chunk = c /\ f[q].h = "T" THEN [f[q] EXCEPT !.h = "F"]
        ELSE IF f[q].chunk = c /\ f[q].h = "F" THEN [f[q] EXCEPT !.h = "orphan"]
        ELSE f[q]]

\* The handles after the files at the given paths were removed.
AfterRemove(f, paths) ==
    [q \in Tasks |->
        IF \/ (f[q].h = "T" /\ TempPath(f[q].chunk) \in paths)
           \/ (f[q].h = "F" /\ ChunkPath(f[q].chunk) \in paths)
        THEN [f[q] EXCEPT !.h = "orphan"]
        ELSE f[q]]


(***************************************************************************)
(* The file part of a chunk fetch, the same code in download_chunk and in  *)
(* the worker loop: create the temp file and write the init segment; GET   *)
(* each segment and append it; rename the temp file to the final path.     *)
(***************************************************************************)
\* File::create(&temp_path) and write_all(&init_bytes)
FilesAfterCreate(c) == WithFile(files, TempPath(c), <<InitCell>>)

HandlePath(t) == IF t.h = "T" THEN TempPath(t.chunk) ELSE ChunkPath(t.chunk)

\* The content of a file after a task wrote its first n segments through its
\* handle, at the offsets 1 .. n behind the init segment.
RECURSIVE WriteSegments(_, _, _)
WriteSegments(c, start, n) ==
    IF n = 0 THEN c
    ELSE WriteAt(WriteSegments(c, start, n - 1), n, start + n)

\* The segment loop is one step: the GETs of the first n segments succeed and
\* their bytes are written, and the loop ends there, complete (n = len) or because
\* the next GET failed.  Between two writes of the loop only the content of this
\* one file changes.  A GET that fails is the first of the chunk: a failure at a
\* later segment differs only in how many segments the abandoned file holds.
LoopEnds(len) == {len} \cup ({0} \cap 0..(len - 1))

FilesAfterSegments(t, n) ==
    IF t.h \in {"T", "F"}
    THEN WithFile(files, HandlePath(t), WriteSegments(files[HandlePath(t)], t.start, n))
    ELSE files

\* fs::rename(&temp_path, &chunk_path)
FilesAfterRename(c) ==
    WithoutFiles(WithFile(files, ChunkPath(c), files[TempPath(c)]), {TempPath(c)})

\* the next index of the loop of download_all_remaining_chunks that is not
\* skipped as already downloaded
RECURSIVE SkipDownloaded(_, _, _)
SkipDownloaded(idx, total, already) ==
    IF idx < total /\ idx \in already
    THEN SkipDownloaded(idx + 1, total, already)
    ELSE idx

(***************************************************************************)
(* download_chunk(track_id, chunk_index), run by the tasks "start", "next" *)
(* and "rem".  When it returns, its caller goes on: start_progressive_     *)
(* stream and download_next_chunk return its result, the loop of           *)
(* download_all_remaining_chunks takes the next index.                     *)
(***************************************************************************)
DcTasks == {"start", "next", "rem"}

DownloadChunkReturn(p, f, ok) ==
    /\ fetch' = [f EXCEPT ![p] = IF p = "rem" THEN [IdleTask EXCEPT !.pc = "rem_loop"]
                                 ELSE IdleTask]
    /\ start_call' = IF p /= "start" THEN start_call
                     ELSE IF ok
                     THEN [result |-> "Ok", media_urls |-> <<>>,
                           total_chunks |-> start_call.total_chunks,
                           first_chunk_path |-> f[p].chunk]
                     ELSE StartReturn("ChunkFailed")
    /\ next_call' = IF p /= "next" THEN next_call
                    ELSE IF ok
                    THEN [next_call EXCEPT !.result = "Ok",
                                           !.chunk_path = f[p].chunk,
                                           !.is_last = (f[p].chunk = next_call.total_chunks - 1),
                                           !.is_ready = TRUE]
                    ELSE [NextReset EXCEPT !.result = "ChunkFailed"]
    /\ rem_call' = IF p = "rem"
                   THEN [rem_call EXCEPT !.idx = SkipDownloaded(rem_call.idx + 1,
                                                  rem_call.total_chunks, rem_call.already)]
                   ELSE rem_call

\* A panic of the task p with the mutex held.
PanicLocked(p) ==
    /\ fetch' = [fetch EXCEPT ![p] = IF p \in {"w0", "w1"}
                                     THEN [IdleTask EXCEPT !.pc = "panicked"]
                                     ELSE IdleTask]
    /\ start_call' = IF p = "start" THEN StartReturn("Panicked") ELSE start_call
    /\ next_call' = IF p = "next" THEN [NextReset EXCEPT !.result = "Panicked"] ELSE next_call

\* The first critical section: snapshot of the segment range and the urls.
\* The slice media_urls[start..end] panics, with the mutex held, when the range
\* is not within the vector.
DownloadChunkSnapshot(p) ==
    /\ fetch[p].pc = "snap"
    /\ ~poisoned
    /\ IF ~has_active_stream
       THEN /\ DownloadChunkReturn(p, fetch, FALSE)
            /\ UNCHANGED poisoned
       ELSE LET r == get_chunk_segment_range(Stream, fetch[p].chunk)
            IN  IF r[1] <= r[2] /\ r[2] <= Len(Stream.media_urls)
                THEN /\ fetch' = [fetch EXCEPT ![p].pc = "create",
                                               ![p].start = r[1], ![p].end = r[2]]
                     /\ UNCHANGED <<poisoned, start_call, rem_call, next_call>>
                ELSE /\ PanicLocked(p)
                     /\ poisoned' = TRUE
                     /\ UNCHANGED rem_call
    /\ UNCHANGED <<progressive_streams, files, downloading_chunks, mt_call, calls, plan, audioVars, lockVars,
                   fin_call>>

DownloadChunkCreate(p) ==
    /\ fetch[p].pc = "create"
    /\ files' = FilesAfterCreate(fetch[p].chunk)
    /\ fetch' = [fetch EXCEPT ![p].h = "T", ![p].pc = "segments"]
    /\ UNCHANGED <<progressive_streams, downloading_chunks, start_call,
                   rem_call, mt_call, poisoned, calls, plan, audioVars, lockVars, next_call, fin_call>>

DownloadChunkSegments(p) ==
    /\ fetch[p].pc = "segments"
    /\ \E n \in LoopEnds(fetch[p].end - fetch[p].start) :
          /\ files' = FilesAfterSegments(fetch[p], n)
          /\ IF n = fetch[p].end - fetch[p].start
             THEN /\ fetch' = [fetch EXCEPT ![p].pc = "rename", ![p].h = "none"]
                  /\ UNCHANGED <<start_call, rem_call, next_call>>
             ELSE DownloadChunkReturn(p, fetch, FALSE)
    /\ UNCHANGED <<progressive_streams, downloading_chunks, mt_call, poisoned, calls, plan, audioVars, lockVars,
                   fin_call>>

\* The rename (the handle was dropped at the end of the loop), which fails when
\* the temp file is gone.
DownloadChunkRename(p) ==
    /\ fetch[p].pc = "rename"
    /\ IF Exists(TempPath(fetch[p].chunk))
       THEN /\ files' = FilesAfterRename(fetch[p].chunk)
            /\ fetch' = [AfterRename(fetch, fetch[p].chunk) EXCEPT ![p].pc = "update"]
            /\ UNCHANGED <<start_call, rem_call, next_call>>
       ELSE /\ files' = files
            /\ DownloadChunkReturn(p, fetch, FALSE)
    /\ UNCHANGED <<progressive_streams, downloading_chunks, mt_call, poisoned, calls, plan, audioVars, lockVars,
                   fin_call>>

\* The state update at the end of download_chunk.
DownloadChunkMark(st, t) ==
    LET st1 == [st EXCEPT !.chunks = PutChunk(st.chunks, ReadyChunk(t.chunk, t.start, t.end))]
    IN  IF t.chunk = total_chunks(st1) - 1
        THEN [st1 EXCEPT !.is_complete = TRUE]
        ELSE st1

DownloadChunkUpdate(p) ==
    /\ fetch[p].pc = "update"
    /\ ~poisoned
    /\ progressive_streams' =
          IF has_active_stream
          THEN [progressive_streams EXCEPT ![TrackId] = DownloadChunkMark(Stream, fetch[p])]
          ELSE progressive_streams
    /\ DownloadChunkReturn(p, fetch, TRUE)
    /\ UNCHANGED <<files, downloading_chunks, mt_call, poisoned, calls, plan, audioVars, lockVars, fin_call>>

download_chunk(p) ==
    \/ DownloadChunkSnapshot(p)
    \/ DownloadChunkCreate(p)
    \/ DownloadChunkSegments(p)
    \/ DownloadChunkRename(p)
    \/ DownloadChunkUpdate(p)

\* lock().unwrap() on the poisoned mutex panics: the task ends.
LockPcs == {"snap", "update", "init_get", "next_ready", "rem_loop", "pick", "wupdate",
            "fin_remove"}

PoisonedLock(p) ==
    /\ poisoned
    /\ fetch[p].pc \in LockPcs
    /\ PanicLocked(p)
    /\ fin_call' = IF p = "fin" THEN [fin_call EXCEPT !.result = "Panicked"] ELSE fin_call
    /\ UNCHANGED <<progressive_streams, files, downloading_chunks,
                   rem_call, mt_call, poisoned, calls, plan, audioVars, lockVars>>

(***************************************************************************)
(* start_progressive_stream                                                *)
(***************************************************************************)
CanCall(p) == fetch[p].pc = "idle" /\ calls < MaxCalls

StartCall(m, d) ==
    LET v == StartValidation(m, d)
    IN  /\ CanCall("start")
        /\ calls' = calls + 1
        /\ IF v = "proceed"
           THEN /\ start_call' = [StartReturn("pending") EXCEPT
                                     !.media_urls = parse_dash_manifest(m).media_urls]
                /\ fetch' = [fetch EXCEPT !["start"].pc = "init_get"]
           ELSE /\ start_call' = StartReturn(v)
                /\ fetch' = fetch
        /\ UNCHANGED <<progressive_streams, files, downloading_chunks, rem_call,
                       mt_call, poisoned, plan, audioVars, lockVars, next_call, fin_call>>

\* The GET of the init segment fails, or succeeds: then
\* streams.insert(track_id, state) and download_chunk(track_id, 0).
StartInitFailed ==
    /\ fetch["start"].pc = "init_get"
    /\ fetch' = [fetch EXCEPT !["start"].pc = "idle"]
    /\ start_call' = StartReturn("InitRequestFailed")
    /\ UNCHANGED <<progressive_streams, files, downloading_chunks, rem_call,
                   mt_call, poisoned, calls, plan, audioVars, lockVars, next_call, fin_call>>

StartInstall ==
    /\ fetch["start"].pc = "init_get"
    /\ ~poisoned
    /\ progressive_streams' = (TrackId :> NewStreamState(start_call.media_urls))
    /\ fetch' = [fetch EXCEPT !["start"].pc = "snap", !["start"].chunk = 0]
    /\ start_call' = [start_call EXCEPT
                          !.media_urls = <<>>,
                          !.total_chunks = total_chunks(NewStreamState(start_call.media_urls))]
    /\ UNCHANGED <<files, downloading_chunks, rem_call, mt_call, poisoned, calls, plan, audioVars, lockVars, next_call, fin_call>>

start_progressive_stream ==
    \/ \E m \in Manifests, d \in Durations : StartCall(m, d)
    \/ StartInitFailed
    \/ StartInstall

(***************************************************************************)
(* download_next_chunk                                                     *)
(***************************************************************************)
NextCall ==
    /\ CanCall("next")
    /\ ~poisoned
    /\ has_active_stream
    /\ calls' = calls + 1
    /\ LET next == Stream.current_chunk + 1
       IN  /\ fetch' = [fetch EXCEPT !["next"] =
                    IF next >= total_chunks(Stream)
                    THEN IdleTask
                    ELSE IF IsReady(Stream, next)
                    THEN [IdleTask EXCEPT !.pc = "next_ready", !.chunk = next]
                    ELSE [IdleTask EXCEPT !.pc = "snap", !.chunk = next]]
           /\ next_call' =
                    IF next >= total_chunks(Stream)
                    THEN [NextReset EXCEPT !.result = "Ok", !.chunk_index = next,
                                           !.total_chunks = total_chunks(Stream),
                                           !.is_last = TRUE]
                    ELSE [NextReset EXCEPT !.result = "pending", !.chunk_index = next,
                                           !.total_chunks = total_chunks(Stream)]
    /\ UNCHANGED <<progressive_streams, files, downloading_chunks, start_call,
                   rem_call, mt_call, poisoned, plan, audioVars, lockVars, fin_call>>

\* The second critical section of the already-ready path:
\* streams.get(track_id).unwrap() and chunks[next_chunk_index] panic, with the
\* mutex held, when the stream or the entry is no longer there.
NextReadyPath ==
    /\ fetch["next"].pc = "next_ready"
    /\ ~poisoned
    /\ IF has_active_stream /\ fetch["next"].chunk < Len(Stream.chunks)
       THEN /\ fetch' = [fetch EXCEPT !["next"] = IdleTask]
            /\ next_call' =
                  [next_call EXCEPT
                      !.result = "Ok",
                      !.chunk_path = At(Stream.chunks, fetch["next"].chunk).file_path,
                      !.is_last = (fetch["next"].chunk = next_call.total_chunks - 1),
                      !.is_ready = TRUE]
            /\ UNCHANGED poisoned
       ELSE /\ fetch' = [fetch EXCEPT !["next"] = IdleTask]
            /\ next_call' = [NextReset EXCEPT !.result = "Panicked"]
            /\ poisoned' = TRUE
    /\ UNCHANGED <<progressive_streams, files, downloading_chunks, start_call,
                   rem_call, mt_call, calls, plan, audioVars, lockVars, fin_call>>

download_next_chunk ==
    \/ NextCall
    \/ NextReadyPath

(***************************************************************************)
(* advance_chunk and reprioritize_for_seek                                 *)
(***************************************************************************)
advance_chunk ==
    /\ calls < MaxCalls
    /\ ~poisoned
    /\ has_active_stream
    /\ calls' = calls + 1
    /\ progressive_streams' =
          [progressive_streams EXCEPT ![TrackId].current_chunk = Stream.current_chunk + 1]
    /\ UNCHANGED <<files, fetch, downloading_chunks, start_call, rem_call, mt_call,
                   poisoned, plan, audioVars, lockVars, next_call, fin_call>>

\* The indices lo .. hi-1 that are not ready, ascending.
RECURSIVE NotReadyFrom(_, _, _)
NotReadyFrom(st, lo, hi) ==
    IF lo >= hi THEN <<>>
    ELSE IF IsReady(st, lo) THEN NotReadyFrom(st, lo + 1, hi)
    ELSE <<lo>> \o NotReadyFrom(st, lo + 1, hi)

\* Faulty variant of NewQueue: the first loop starts behind the target.
NewQueueAfterTarget(st, target_chunk) ==
    NotReadyFrom(st, target_chunk + 1, total_chunks(st)) \o NotReadyFrom(st, 0, target_chunk)

NewQueue(st, target_chunk) ==
    NotReadyFrom(st, target_chunk, total_chunks(st)) \o NotReadyFrom(st, 0, target_chunk)

reprioritize_for_seek(target_chunk) ==
    /\ calls < MaxCalls
    /\ ~poisoned
    /\ has_active_stream
    /\ calls' = calls + 1
    /\ progressive_streams' =
          [progressive_streams EXCEPT ![TrackId] =
              [Stream EXCEPT !.priority_chunk = target_chunk,
                             !.download_queue = NewQueue(Stream, target_chunk),
                             !.needs_reprioritize = TRUE,
                             !.current_chunk = target_chunk]]
    /\ UNCHANGED <<files, fetch, downloading_chunks, start_call, rem_call, mt_call,
                   poisoned, plan, audioVars, lockVars, next_call, fin_call>>

(***************************************************************************)
(* cleanup_stream: remove the state under the mutex, then delete the ready *)
(* chunk files and every file of the cache directory named {id}_*.         *)
(***************************************************************************)
CleanupRemove ==
    /\ CanCall("cleanup")
    /\ ~poisoned
    /\ calls' = calls + 1
    /\ progressive_streams' = NoStreams
    /\ fetch' = [fetch EXCEPT !["cleanup"].pc = "delete"]
    /\ UNCHANGED <<files, downloading_chunks, start_call, rem_call, mt_call,
                   poisoned, plan, audioVars, lockVars, next_call, fin_call>>

CleanupDelete ==
    /\ fetch["cleanup"].pc = "delete"
    /\ files' = NoFiles
    /\ fetch' = [AfterRemove(fetch, DOMAIN files) EXCEPT !["cleanup"].pc = "idle"]
    /\ UNCHANGED <<progressive_streams, downloading_chunks, start_call, rem_call,
                   mt_call, poisoned, calls, plan, audioVars, lockVars, next_call, fin_call>>

cleanup_stream ==
    \/ CleanupRemove
    \/ CleanupDelete

(***************************************************************************)
(* finalize_stream: under the mutex, refuse unless the stream exists and   *)
(* is complete and collect the paths of the ready chunks; hand them to the *)
(* transcoder (one chunk: the chunk itself; more: join_chunks writes the   *)
(* concat list first); on success cleanup_stream.                          *)
(***************************************************************************)
\* state.chunks.iter().filter(|c| c.is_ready).map(|c| c.file_path.clone())
RECURSIVE ReadyPaths(_)
ReadyPaths(chunks) ==
    IF chunks = <<>> THEN <<>>
    ELSE IF Head(chunks).is_ready
    THEN <<Head(chunks).file_path>> \o ReadyPaths(Tail(chunks))
    ELSE ReadyPaths(Tail(chunks))

\* Faulty variant of FinalizeRefusal: the completeness check is left out.
FinalizeRefusalNoCheck(streams) ==
    IF TrackId \notin DOMAIN streams THEN "NoStream"
    ELSE IF ReadyPaths(streams[TrackId].chunks) = <<>> THEN "NoChunks"
    ELSE "proceed"

\* The error finalize_stream returns from its critical section, or "proceed".
FinalizeRefusal(streams) ==
    IF TrackId \notin DOMAIN streams THEN "NoStream"
    ELSE IF ~streams[TrackId].is_complete THEN "NotComplete"
    ELSE IF ReadyPaths(streams[TrackId].chunks) = <<>> THEN "NoChunks"
    ELSE "proceed"

FinCall ==
    /\ CanCall("fin")
    /\ ~poisoned
    /\ calls' = calls + 1
    /\ LET v == FinalizeRefusal(progressive_streams)
       IN  IF v = "proceed"
           THEN /\ fin_call' = [fin_call EXCEPT !.result = "pending",
                                                !.chunk_paths = ReadyPaths(Stream.chunks)]
                /\ fetch' = [fetch EXCEPT !["fin"].pc = "transcode"]
           ELSE /\ fin_call' = [fin_call EXCEPT !.result = v, !.chunk_paths = <<>>]
                /\ fetch' = fetch
    /\ UNCHANGED <<progressive_streams, files, downloading_chunks, start_call, rem_call,
                   mt_call, poisoned, plan, audioVars, lockVars, next_call>>

\* get_ffmpeg_path fails: the call returns its error before anything is written
\* or run.
FinNoTranscoder ==
    /\ fetch["fin"].pc = "transcode"
    /\ fin_call' = [fin_call EXCEPT !.result = "TranscoderFailed", !.chunk_paths = <<>>]
    /\ fetch' = [fetch EXCEPT !["fin"].pc = "idle"]
    /\ UNCHANGED <<progressive_streams, files, downloading_chunks, start_call, rem_call,
                   mt_call, poisoned, calls, plan, audioVars, lockVars, next_call>>

\* The transcoder is started on the collected paths; join_chunks writes them to
\* the concat list before.
FinTranscode ==
    /\ fetch["fin"].pc = "transcode"
    /\ files' = IF Len(fin_call.chunk_paths) = 1 THEN files
                ELSE WithFile(files, ConcatPath, fin_call.chunk_paths)
    /\ fin_call' = [fin_call EXCEPT !.transcoded = fin_call.chunk_paths]
    /\ fetch' = [fetch EXCEPT !["fin"].pc = "ffmpeg"]
    /\ UNCHANGED <<progressive_streams, downloading_chunks, start_call, rem_call,
                   mt_call, poisoned, calls, plan, audioVars, lockVars, next_call>>

\* The transcoder ends.  It can succeed only when every file it was given is
\* there; join_chunks then removes the concat list.  When it fails the call
\* returns its error, and join_chunks leaves the concat list.
FinFfmpeg ==
    /\ fetch["fin"].pc = "ffmpeg"
    /\ \/ /\ \A j \in 1..Len(fin_call.chunk_paths) : Exists(ChunkPath(fin_call.chunk_paths[j]))
          /\ files' = WithoutFiles(files, {ConcatPath})
          /\ fetch' = [fetch EXCEPT !["fin"].pc = "fin_remove"]
          /\ UNCHANGED fin_call
       \/ /\ files' = files
          /\ fetch' = [fetch EXCEPT !["fin"].pc = "idle"]
          /\ fin_call' = [fin_call EXCEPT !.result = "TranscoderFailed", !.chunk_paths = <<>>]
    /\ UNCHANGED <<progressive_streams, downloading_chunks, start_call, rem_call,
                   mt_call, poisoned, calls, plan, audioVars, lockVars, next_call>>

\* Faulty variant of CleanupDeletes: only the chunk files are deleted.
CleanupDeletesChunkFiles(fs) == {path \in DOMAIN fs : path[1] = "m4a"}

\* The files cleanup_stream deletes: the chunk files of the removed state and
\* every file of the cache directory whose name starts with "{id}_" (chunk
\* files, temp files and the concat list of the one modelled id).
CleanupDeletes(fs) == DOMAIN fs

\* self.cleanup_stream(track_id): the removal under the mutex
FinCleanupRemove ==
    /\ fetch["fin"].pc = "fin_remove"
    /\ ~poisoned
    /\ progressive_streams' = NoStreams
    /\ fetch' = [fetch EXCEPT !["fin"].pc = "fin_delete"]
    /\ UNCHANGED <<files, downloading_chunks, start_call, rem_call, mt_call,
                   poisoned, calls, plan, audioVars, lockVars, next_call, fin_call>>

\* self.cleanup_stream(track_id): the deletion of the files; then Ok(final_path)
FinCleanupDelete ==
    /\ fetch["fin"].pc = "fin_delete"
    /\ files' = WithoutFiles(files, CleanupDeletes(files))
    /\ fetch' = [AfterRemove(fetch, CleanupDeletes(files)) EXCEPT !["fin"].pc = "idle"]
    /\ fin_call' = [fin_call EXCEPT !.result = "Ok", !.chunk_paths = <<>>]
    /\ UNCHANGED <<progressive_streams, downloading_chunks, start_call, rem_call,
                   mt_call, poisoned, calls, plan, audioVars, lockVars, next_call>>

finalize_stream ==
    \/ FinCall
    \/ FinNoTranscoder
    \/ FinTranscode
    \/ FinFfmpeg
    \/ FinCleanupRemove
    \/ FinCleanupDelete

(***************************************************************************)
(* download_all_remaining_chunks                                           *)
(***************************************************************************)
\* all chunks ready and chunks.len() == total_chunks
AllReadyDense(st) ==
    /\ \A j \in 1..Len(st.chunks) : st.chunks[j].is_ready
    /\ Len(st.chunks) = total_chunks(st)

\* (0..tc).all(|i| i < chunks.len() && chunks[i].is_ready)
AllDownloaded(st) == \A i \in 0..(total_chunks(st) - 1) : IsReady(st, i)

RemCall ==
    /\ CanCall("rem")
    /\ ~poisoned
    /\ has_active_stream
    /\ calls' = calls + 1
    /\ LET total == total_chunks(Stream)
           already == {i \in 0..(Len(Stream.chunks) - 1) : At(Stream.chunks, i).is_ready}
       IN  rem_call' = [total_chunks |-> total, already |-> already,
                        idx |-> SkipDownloaded(0, total, already)]
    /\ fetch' = [fetch EXCEPT !["rem"].pc = "rem_loop"]
    /\ UNCHANGED <<progressive_streams, files, downloading_chunks, start_call,
                   mt_call, poisoned, plan, audioVars, lockVars, next_call, fin_call>>

\* Loop head: the stream-still-exists check, then download_chunk(idx).
RemLoop ==
    /\ fetch["rem"].pc = "rem_loop"
    /\ ~poisoned
    /\ rem_call.idx < rem_call.total_chunks
    /\ IF has_active_stream
       THEN /\ fetch' = [fetch EXCEPT !["rem"].pc = "snap", !["rem"].chunk = rem_call.idx]
            /\ UNCHANGED rem_call
       ELSE /\ fetch' = [fetch EXCEPT !["rem"] = IdleTask]
            /\ rem_call' = RemReset
    /\ UNCHANGED <<progressive_streams, files, downloading_chunks, start_call,
                   mt_call, poisoned, calls, plan, audioVars, lockVars, next_call, fin_call>>

\* After the loop: mark the stream complete if all chunks are downloaded.
RemFinish ==
    /\ fetch["rem"].pc = "rem_loop"
    /\ ~poisoned
    /\ rem_call.idx >= rem_call.total_chunks
    /\ progressive_streams' =
          IF has_active_stream /\ AllReadyDense(Stream)
          THEN [progressive_streams EXCEPT ![TrackId].is_complete = TRUE]
          ELSE progressive_streams
    /\ fetch' = [fetch EXCEPT !["rem"] = IdleTask]
    /\ rem_call' = RemReset
    /\ UNCHANGED <<files, downloading_chunks, start_call, mt_call, poisoned, calls, plan, audioVars, lockVars, next_call, fin_call>>

download_all_remaining_chunks ==
    \/ RemCall
    \/ RemLoop
    \/ RemFinish

(***************************************************************************)
(* download_all_chunks_multithreaded and its two workers                   *)
(***************************************************************************)
MtCall ==
    /\ ~mt_call.active
    /\ calls < MaxCalls
    /\ ~poisoned
    /\ has_active_stream
    /\ calls' = calls + 1
    /\ mt_call' = [active |-> TRUE,
                   total_segments |-> Stream.total_segments,
                   first_chunk_segments |-> Stream.first_chunk_segments,
                   segments_per_chunk |-> Stream.segments_per_chunk,
                   media_urls |-> Stream.media_urls]
    /\ downloading_chunks' = {}
    /\ fetch' = [p \in Tasks |-> IF p \in Workers THEN [IdleTask EXCEPT !.pc = "pick"]
                                 ELSE fetch[p]]
    /\ UNCHANGED <<progressive_streams, files, start_call, rem_call, poisoned, plan, audioVars, lockVars, next_call, fin_call>>

\* Faulty variant of FirstEligible: the lowest eligible index of the queue
\* instead of the first one in queue order.
FirstEligibleLowest(st, queue, downloading) ==
    LET eligible == {c \in Range(queue) : ~IsReady(st, c) /\ c \notin downloading}
    IN  IF eligible = {} THEN NoChunk
        ELSE CHOOSE c \in eligible : \A d \in eligible : c <= d

\* The first index of the queue that is neither ready nor in flight, or NoChunk.
RECURSIVE FirstEligible(_, _, _)
FirstEligible(st, queue, downloading) ==
    IF queue = <<>> THEN NoChunk
    ELSE IF ~IsReady(st, Head(queue)) /\ Head(queue) \notin downloading THEN Head(queue)
    ELSE FirstEligible(st, Tail(queue), downloading)

\* Faulty variant of WorkerChoice: with the stream gone the worker goes on with
\* chunk 0 of its snapshot.
WorkerChoiceStreamGone(streams, downloading) ==
    IF TrackId \notin DOMAIN streams THEN 0
    ELSE IF streams[TrackId].is_complete THEN NoChunk
    ELSE FirstEligible(streams[TrackId], streams[TrackId].download_queue, downloading)

\* What the loop head of a worker picks: nothing when the stream is gone or
\* complete.
WorkerChoice(streams, downloading) ==
    IF TrackId \in DOMAIN streams /\ ~streams[TrackId].is_complete
    THEN FirstEligible(streams[TrackId], streams[TrackId].download_queue, downloading)
    ELSE NoChunk

\* Loop head of a worker, under the in-flight lock and the stream mutex; then the
\* segment range of the picked chunk from the snapshot and the slice of the urls,
\* which panics when the range is not within the vector.
WorkerPick(w) ==
    /\ fetch[w].pc = "pick"
    /\ ~poisoned
    /\ LET c == WorkerChoice(progressive_streams, downloading_chunks)
           r == get_chunk_segment_range(mt_call, c)
       IN  IF c = NoChunk
           THEN /\ fetch' = [fetch EXCEPT ![w] = [IdleTask EXCEPT !.pc = "done"]]
                /\ UNCHANGED downloading_chunks
           ELSE /\ downloading_chunks' = downloading_chunks \cup {c}
                /\ fetch' = [fetch EXCEPT ![w] =
                       IF r[1] <= r[2] /\ r[2] <= Len(mt_call.media_urls)
                       THEN [IdleTask EXCEPT !.pc = "create", !.chunk = c,
                                             !.start = r[1], !.end = r[2]]
                       ELSE [IdleTask EXCEPT !.pc = "panicked"]]
    /\ UNCHANGED <<progressive_streams, files, start_call, rem_call, mt_call,
                   poisoned, calls, plan, audioVars, lockVars, next_call, fin_call>>

WorkerCreate(w) ==
    /\ fetch[w].pc = "create"
    /\ files' = FilesAfterCreate(fetch[w].chunk)
    /\ fetch' = [fetch EXCEPT ![w].h = "T", ![w].pc = "segments"]
    /\ UNCHANGED <<progressive_streams, downloading_chunks, start_call,
                   rem_call, mt_call, poisoned, calls, plan, audioVars, lockVars, next_call, fin_call>>

WorkerSegments(w) ==
    /\ fetch[w].pc = "segments"
    /\ \E n \in LoopEnds(fetch[w].end - fetch[w].start) :
          /\ files' = FilesAfterSegments(fetch[w], n)
          /\ fetch' = IF n = fetch[w].end - fetch[w].start
                      THEN [fetch EXCEPT ![w].pc = "rename", ![w].h = "none"]
                      ELSE [fetch EXCEPT ![w].pc = "unflight_err", ![w].h = "none"]
    /\ UNCHANGED <<progressive_streams, downloading_chunks, start_call,
                   rem_call, mt_call, poisoned, calls, plan, audioVars, lockVars, next_call, fin_call>>

WorkerRename(w) ==
    /\ fetch[w].pc = "rename"
    /\ IF Exists(TempPath(fetch[w].chunk))
       THEN /\ files' = FilesAfterRename(fetch[w].chunk)
            /\ fetch' = [AfterRename(fetch, fetch[w].chunk) EXCEPT ![w].pc = "unflight_ok"]
       ELSE /\ files' = files
            /\ fetch' = [fetch EXCEPT ![w].pc = "unflight_err"]
    /\ UNCHANGED <<progressive_streams, downloading_chunks, start_call,
                   rem_call, mt_call, poisoned, calls, plan, audioVars, lockVars, next_call, fin_call>>

\* downloading.remove(&chunk_idx), whatever the result
WorkerRemoveInFlight(w) ==
    /\ fetch[w].pc \in {"unflight_ok", "unflight_err"}
    /\ downloading_chunks' = downloading_chunks \ {fetch[w].chunk}
    /\ fetch' = [fetch EXCEPT ![w].pc = IF fetch[w].pc = "unflight_ok"
                                        THEN "wupdate" ELSE "wfail"]
    /\ UNCHANGED <<progressive_streams, files, start_call, rem_call, mt_call,
                   poisoned, calls, plan, audioVars, lockVars, next_call, fin_call>>

\* The state update of a worker after a successful fetch.
WorkerMark(st, t) ==
    LET st1 == [st EXCEPT !.chunks = PutChunk(st.chunks, ReadyChunk(t.chunk, t.start, t.end))]
    IN  IF AllDownloaded(st1)
        THEN [st1 EXCEPT !.is_complete = TRUE]
        ELSE st1

WorkerUpdate(w) ==
    /\ fetch[w].pc = "wupdate"
    /\ ~poisoned
    /\ progressive_streams' =
          IF has_active_stream
          THEN [progressive_streams EXCEPT ![TrackId] = WorkerMark(Stream, fetch[w])]
          ELSE progressive_streams
    /\ fetch' = [fetch EXCEPT ![w] = [IdleTask EXCEPT !.pc = "pick"]]
    /\ UNCHANGED <<files, downloading_chunks, start_call, rem_call, mt_call,
                   poisoned, calls, plan, audioVars, lockVars, next_call, fin_call>>

\* The failure branch of a worker: fs::remove_file(&temp_path).ok()
WorkerFailed(w) ==
    /\ fetch[w].pc = "wfail"
    /\ files' = WithoutFiles(files, {TempPath(fetch[w].chunk)})
    /\ fetch' = [AfterRemove(fetch, {TempPath(fetch[w].chunk)})
                    EXCEPT ![w] = [IdleTask EXCEPT !.pc = "pick"]]
    /\ UNCHANGED <<progressive_streams, downloading_chunks, start_call, rem_call,
                   mt_call, poisoned, calls, plan, audioVars, lockVars, next_call, fin_call>>

\* Both workers joined: the final completeness check, then return.
MtJoin ==
    /\ mt_call.active
    /\ \A w \in Workers : fetch[w].pc \in {"done", "panicked"}
    /\ progressive_streams' =
          IF ~poisoned /\ has_active_stream /\ AllDownloaded(Stream)
          THEN [progressive_streams EXCEPT ![TrackId].is_complete = TRUE]
          ELSE progressive_streams
    /\ mt_call' = MtReset
    /\ downloading_chunks' = {}
    /\ fetch' = [p \in Tasks |-> IF p \in Workers THEN IdleTask ELSE fetch[p]]
    /\ UNCHANGED <<files, start_call, rem_call, poisoned, calls, plan, audioVars, lockVars, next_call, fin_call>>

download_all_chunks_multithreaded ==
    \/ MtCall
    \/ \E w \in Workers :
          \/ WorkerPick(w)
          \/ WorkerCreate(w)
          \/ WorkerSegments(w)
          \/ WorkerRename(w)
          \/ WorkerRemoveInFlight(w)
          \/ WorkerUpdate(w)
          \/ WorkerFailed(w)
    \/ MtJoin

(***************************************************************************)
(* Spec: the commands that fetch in their own task, from the empty         *)
(* coordinator.                                                            *)
(***************************************************************************)
Next ==
    \/ start_progressive_stream
    \/ \E p \in DcTasks : download_chunk(p)
    \/ \E p \in Tasks : PoisonedLock(p)
    \/ download_next_chunk
    \/ advance_chunk
    \/ \E k \in 0..MaxTarget : reprioritize_for_seek(k)
    \/ cleanup_stream
    \/ download_all_remaining_chunks

Spec == Init /\ [][Next]_vars

(***************************************************************************)
(* MtSpec: all commands, the two-worker downloader included, from the      *)
(* state in which one call of start_progressive_stream has returned Ok:    *)
(* the stream is installed, chunk 0 is fetched and marked ready.           *)
(***************************************************************************)
StartedStream(media_urls) ==
    LET st == NewStreamState(media_urls)
        r == get_chunk_segment_range(st, 0)
    IN  DownloadChunkMark(st, [chunk |-> 0, start |-> r[1], end |-> r[2]])

\* The coordinator after one call of start_progressive_stream returned Ok.
StartedCache ==
    /\ \E m \in Manifests :
          /\ \E d \in Durations : StartValidation(m, d) = "proceed"
          /\ LET st == StartedStream(parse_dash_manifest(m).media_urls)
             IN  /\ progressive_streams = (TrackId :> st)
                 /\ files = (ChunkPath(0) :> ChunkContent(0, At(st.chunks, 0).segment_end))
                 /\ start_call = [result |-> "Ok", media_urls |-> <<>>,
                                  total_chunks |-> total_chunks(st),
                                  first_chunk_path |-> At(st.chunks, 0).file_path]
    /\ fetch = [p \in Tasks |-> IdleTask]
    /\ downloading_chunks = {}
    /\ next_call = NextReset
    /\ fin_call = FinReset
    /\ rem_call = RemReset
    /\ mt_call = MtReset
    /\ poisoned = FALSE
    /\ PlanInit
    /\ NewEngine
    /\ NewLocks

MtInit == StartedCache /\ calls = 1

MtNext ==
    \/ Next
    \/ download_all_chunks_multithreaded

MtSpec == MtInit /\ [][MtNext]_vars

(***************************************************************************)
(* WorkerSpec: the two-worker downloader of a started stream, with seeks   *)
(* and cleanup_stream during it.  FairWorkerSpec adds the scheduling of    *)
(* the runtime: a worker that can take a step eventually takes one, and so *)
(* do the joining call and a cleanup that has begun.  Whether a GET        *)
(* succeeds is not a matter of scheduling.                                 *)
(***************************************************************************)
WorkerStep(w) ==
    \/ WorkerPick(w)
    \/ WorkerCreate(w)
    \/ WorkerSegments(w)
    \/ WorkerRename(w)
    \/ WorkerRemoveInFlight(w)
    \/ WorkerUpdate(w)
    \/ WorkerFailed(w)

WorkerNext ==
    \/ download_all_chunks_multithreaded
    \/ \E k \in 0..MaxTarget : reprioritize_for_seek(k)
    \/ cleanup_stream

WorkerSpec == MtInit /\ [][WorkerNext]_vars

FairWorkerSpec ==
    /\ MtInit
    /\ [][WorkerNext]_vars
    /\ \A w \in Workers : WF_vars(WorkerStep(w))
    /\ WF_vars(MtJoin)
    /\ WF_vars(CleanupDelete)

(***************************************************************************)
(* OkSpec: a started stream that is never cleaned up and whose segment     *)
(* GETs all succeed: the two-worker downloader with seeks and              *)
(* download_next_chunk during it, under the scheduling of the runtime.     *)
(* The commands are counted from the started stream.                       *)
(***************************************************************************)
WorkerSegmentsOk(w) == WorkerSegments(w) /\ fetch'[w].pc = "rename"

DownloadChunkSegmentsOk(p) == DownloadChunkSegments(p) /\ fetch'[p].pc = "rename"

WorkerStepOk(w) ==
    \/ WorkerPick(w)
    \/ WorkerCreate(w)
    \/ WorkerSegmentsOk(w)
    \/ WorkerRename(w)
    \/ WorkerRemoveInFlight(w)
    \/ WorkerUpdate(w)
    \/ WorkerFailed(w)

DownloadNextStepOk ==
    \/ DownloadChunkSnapshot("next")
    \/ DownloadChunkCreate("next")
    \/ DownloadChunkSegmentsOk("next")
    \/ DownloadChunkRename("next")
    \/ DownloadChunkUpdate("next")
    \/ NextReadyPath

OkInit == StartedCache /\ calls = 0

OkNext ==
    \/ MtCall
    \/ \E w \in Workers : WorkerStepOk(w)
    \/ MtJoin
    \/ NextCall
    \/ DownloadNextStepOk
    \/ \E k \in 0..MaxTarget : reprioritize_for_seek(k)

\* A step of a task is enabled in the same states with and without the failing
\* GETs, so the fairness conditions are those of the steps themselves.
OkSpec ==
    /\ OkInit
    /\ [][OkNext]_vars
    /\ \A w \in Workers : WF_vars(WorkerStep(w))
    /\ WF_vars(MtJoin)
    /\ WF_vars(download_chunk("next") \/ NextReadyPath)

(***************************************************************************)
(* NextSpec: download_next_chunk called again and again on a started       *)
(* stream, with advance_chunk and cleanup_stream between the calls or      *)
(* during them.  The commands are counted from the started stream.         *)
(***************************************************************************)
NextSpecNext ==
    \/ download_next_chunk
    \/ download_chunk("next")
    \/ advance_chunk
    \/ cleanup_stream

NextSpec == OkInit /\ [][NextSpecNext]_vars

(***************************************************************************)
(* StartSpec: start_progressive_stream alone, called again and again, with *)
(* cleanup_stream between the calls or during them.                        *)
(***************************************************************************)
StartNext ==
    \/ start_progressive_stream
    \/ download_chunk("start")
    \/ cleanup_stream

StartSpec == Init /\ [][StartNext]_vars

(***************************************************************************)
(* FinSpec: finalize_stream with the commands that start a stream, fetch   *)
(* its chunks one at a time and clean it up.                               *)
(***************************************************************************)
FinNext ==
    \/ start_progressive_stream
    \/ \E p \in {"start", "next"} : download_chunk(p)
    \/ \E p \in {"start", "next", "fin"} : PoisonedLock(p)
    \/ download_next_chunk
    \/ cleanup_stream
    \/ finalize_stream

FinSpec == Init /\ [][FinNext]_vars

(***************************************************************************)
(* PlanSpec: the pure chunk-plan functions applied to every plan           *)
(* (N, F, R) within the bounds.                                            *)
(***************************************************************************)
PlanSpecInit ==
    /\ NewCache
    /\ \E n \in 1..MaxPlanN, f \in 1..MaxPlanF, r \in 1..MaxPlanR : plan = NewPlan(n, f, r)

\* total_chunks() and get_chunk_segment_range(i) for every i below it
PlanChunks ==
    /\ plan.op = "none"
    /\ plan' = [plan EXCEPT !.op = "chunks",
                            !.count = total_chunks(plan),
                            !.ranges = [j \in 1..total_chunks(plan) |->
                                           get_chunk_segment_range(plan, j - 1)]]
    /\ UNCHANGED <<streamVars, audioVars, lockVars>>

\* get_chunk_for_position at a position within or past the track
PlanPosition ==
    /\ plan.op = "chunks"
    /\ \E q \in 0..(QuarterSeconds * SEGMENT_DURATION * (plan.total_segments + MaxPlanPast)) :
          plan' = [plan EXCEPT !.op = "position", !.q = q,
                               !.chunk = get_chunk_for_position(plan, q)]
    /\ UNCHANGED <<streamVars, audioVars, lockVars>>

PlanNext ==
    \/ PlanChunks
    \/ PlanPosition

PlanSpec == PlanSpecInit /\ [][PlanNext]_vars

(***************************************************************************)
(* Properties.                                                             *)
(***************************************************************************)
NotReady(st) == {i \in 0..(total_chunks(st) - 1) : ~IsReady(st, i)}

Occurrences(queue, i) == Cardinality({j \in 1..Len(queue) : queue[j] = i})

\* C1: in every reachable state of an active stream, is_complete is true if and
\* only if every chunk index in [0, total_chunks) is marked is_ready.
C1_CompleteIffAllReady ==
    has_active_stream => (Stream.is_complete <=> AllDownloaded(Stream))

\* The state download_chunk produces when it fetches the last chunk before an
\* earlier one: the stream is complete and a chunk is not ready.
C1_CompleteWithMissingChunk ==
    /\ has_active_stream
    /\ Stream.is_complete
    /\ IsReady(Stream, 0)
    /\ IsReady(Stream, 2)
    /\ ~IsReady(Stream, 1)
    /\ \A p \in Tasks : fetch[p].pc = "idle"

\* C2: within one download_all_chunks_multithreaded call, a worker never fetches
\* a chunk index that the other worker is fetching or has fetched successfully
\* and not yet marked ready.
WorkerFetching(w) ==
    fetch[w].pc \in {"create", "segments", "rename", "unflight_ok", "unflight_err"}

WorkerFetched(w) == fetch[w].pc \in {"unflight_ok", "wupdate"}

C2_WorkersNeverPickSame ==
    \A w \in Workers, v \in Workers :
        (w # v /\ WorkerFetching(w) /\ (WorkerFetching(v) \/ WorkerFetched(v)))
            => fetch[w].chunk # fetch[v].chunk

\* A worker has picked the chunk the other worker fetched and is about to mark.
C2_PickedFetchedChunk ==
    /\ fetch["w0"].pc = "wupdate"
    /\ fetch["w1"].pc = "create"
    /\ fetch["w0"].chunk = fetch["w1"].chunk
    /\ calls = 2

\* C3: for every target index k, reprioritize_for_seek(k) installs as
\* download_queue a permutation of exactly the indices in [0, total_chunks) that
\* are not ready at that moment, every index >= k before every index < k, each
\* group ascending.
SeekOrdered(queue, k) ==
    \A a \in 1..Len(queue), b \in 1..Len(queue) :
        a < b => /\ ~(queue[a] < k /\ queue[b] >= k)
                 /\ ((queue[a] >= k) = (queue[b] >= k) => queue[a] < queue[b])

C3_SeekQueueIsPermutation ==
    [][\A k \in 0..MaxTarget :
          reprioritize_for_seek(k) =>
              LET queue == progressive_streams'[TrackId].download_queue
              IN  /\ Range(queue) = NotReady(Stream)
                  /\ Len(queue) = Cardinality(NotReady(Stream))
                  /\ SeekOrdered(queue, k)]_vars

\* A seek past the last chunk has put an index that is no chunk into the queue.
C3_QueueHoldsNoChunk ==
    /\ has_active_stream
    /\ Stream.needs_reprioritize
    /\ \E j \in 1..Len(Stream.download_queue) :
          Stream.download_queue[j] >= total_chunks(Stream)

\* C4: for every N >= 1, F >= 1, R >= 1 the ranges get_chunk_segment_range(i),
\* i in [0, total_chunks()), are non-empty, contiguous in index order, pairwise
\* disjoint and cover exactly [0, N); total_chunks() = 1 + ceil(max(0, N - F) / R).
CeilDiv(a, b) == CHOOSE k \in 0..a : k * b >= a /\ (k = 0 \/ (k - 1) * b < a)

C4_ChunksPartitionSegments ==
    plan.op = "chunks" =>
        /\ plan.count = 1 + CeilDiv(Max(0, plan.total_segments - plan.first_chunk_segments),
                                    plan.segments_per_chunk)
        /\ \A j \in 1..plan.count : plan.ranges[j][1] < plan.ranges[j][2]
        /\ plan.ranges[1][1] = 0
        /\ \A j \in 1..(plan.count - 1) : plan.ranges[j][2] = plan.ranges[j + 1][1]
        /\ plan.ranges[plan.count][2] = plan.total_segments
        /\ \A seg \in 0..(plan.total_segments - 1) :
              Cardinality({j \in 1..plan.count :
                              plan.ranges[j][1] <= seg /\ seg < plan.ranges[j][2]}) = 1

\* A plan of three chunks whose last chunk is shorter than a regular one.
C4_ThreeChunksShortLast ==
    /\ plan.op = "chunks"
    /\ plan.count = 3
    /\ plan.ranges[3][2] - plan.ranges[3][1] < plan.segments_per_chunk
    /\ plan.first_chunk_segments # plan.segments_per_chunk

\* C5: for N >= F and a position t with 0 <= t < 4N seconds,
\* get_chunk_for_position returns the chunk whose segment range [s, e) has
\* 4s <= t < 4e; the result is always below total_chunks, and a position at or
\* beyond 4N maps to the last chunk.
C5_PositionFallsInChunk ==
    (plan.op = "position" /\ plan.total_segments >= plan.first_chunk_segments) =>
        LET unit == QuarterSeconds * SEGMENT_DURATION
        IN  /\ plan.chunk < plan.count
            /\ plan.q < unit * plan.total_segments =>
                  /\ unit * plan.ranges[plan.chunk + 1][1] <= plan.q
                  /\ plan.q < unit * plan.ranges[plan.chunk + 1][2]
            /\ plan.q >= unit * plan.total_segments => plan.chunk = plan.count - 1

\* A position on the boundary between the first and the second chunk of a plan
\* of at least three chunks.
C5_PositionAtChunkBoundary ==
    /\ plan.op = "position"
    /\ plan.total_segments >= plan.first_chunk_segments
    /\ plan.count >= 3
    /\ plan.q = QuarterSeconds * SEGMENT_DURATION * plan.first_chunk_segments
    /\ plan.chunk = 1

\* C6: in every reachable state of an active stream, every chunk index in
\* [0, total_chunks) that is not ready occurs in download_queue exactly once.
C6_NotReadyOnceInQueue ==
    has_active_stream =>
        \A i \in NotReady(Stream) : Occurrences(Stream.download_queue, i) = 1

\* After a seek to chunk 2 while chunk 0 was being fetched, chunk 0 completed:
\* the queue is 2, 0, 1 and the chunks 1 and 2 are not ready.
C6_SeekThenCompletion ==
    /\ has_active_stream
    /\ Stream.download_queue = <<2, 0, 1>>
    /\ IsReady(Stream, 0)
    /\ NotReady(Stream) = {1, 2}

\* C7: in every reachable state of an active stream current_chunk <= total_chunks.
C7_CurrentChunkBounded ==
    has_active_stream => Stream.current_chunk <= total_chunks(Stream)

\* advance_chunk called twice on a stream of one chunk.
C7_AdvancedPastEnd ==
    /\ has_active_stream
    /\ total_chunks(Stream) = 1
    /\ Stream.current_chunk = 2
    /\ ~Stream.needs_reprioritize

\* C8: whenever a chunk of an active stream is marked is_ready, the file at its
\* file_path exists and its content is the init segment followed by the segments
\* of its range in order.
C8_ReadyChunkFileComplete ==
    has_active_stream =>
        \A i \in 0..(Len(Stream.chunks) - 1) :
            At(Stream.chunks, i).is_ready =>
                LET c == At(Stream.chunks, i)
                IN  /\ Exists(ChunkPath(c.file_path))
                    /\ files[ChunkPath(c.file_path)] =
                           ChunkContent(c.segment_start, c.segment_end)

\* Two fetches of the same chunk overlapped: the second created (truncated) the
\* temp file after the first had written it, the first renamed it and marked
\* the chunk ready, and the GET of the second failed: the ready chunk's file
\* holds the init segment only, and nothing is running.
C8_ReadyChunkTruncated ==
    /\ has_active_stream
    /\ \E i \in 0..(Len(Stream.chunks) - 1) :
          /\ At(Stream.chunks, i).is_ready
          /\ At(Stream.chunks, i).segment_end > At(Stream.chunks, i).segment_start
          /\ Exists(ChunkPath(i))
          /\ files[ChunkPath(i)] = <<InitCell>>
    /\ \A p \in Tasks : fetch[p].pc = "idle"

\* C9 as stated: a manifest with N < 20 segments and a declared duration with
\* floor(floor(ms / 1000) / 4) >= 2N, or no declared duration, makes
\* start_progressive_stream fail with the preview error, installing nothing.
Usable(m) == m.b64_ok /\ ~m.json /\ parse_dash_manifest(m).ok

ExpectedSegments(d) == (d \div 1000) \div SEGMENT_DURATION

\* What every StartCall(m, d) leaves alone and counts.
StartCallFrame ==
    /\ calls' = calls + 1
    /\ UNCHANGED <<progressive_streams, files, downloading_chunks, rem_call, mt_call,
                   poisoned, plan, audioVars, lockVars, next_call, fin_call>>

RejectedAs(errors) ==
    /\ start_call'.result \in errors
    /\ fetch'["start"].pc = "idle"
    /\ progressive_streams' = progressive_streams
    /\ ~has_active_stream => TrackId \notin DOMAIN progressive_streams'

C9_PreviewRejectedFromTwiceN ==
    [][StartCallFrame => \A m \in Manifests, d \in Durations :
          (/\ Usable(m)
           /\ SumRepeats(m.timeline) < MIN_SEGMENTS_FOR_FULL_TRACK
           /\ (d = NoDuration \/ ExpectedSegments(d) >= 2 * SumRepeats(m.timeline))
           /\ StartCall(m, d))
              => RejectedAs({"PreviewManifest"})]_vars

\* C9, amended: the declared duration must imply at least 2N + 2 segments
\* (floor(floor(floor(ms / 1000) / 4) / 2) > N); with N < 20 and such a duration,
\* or no declared duration, start_progressive_stream fails with the preview
\* error and installs nothing.
C9_PreviewRejected ==
    [][StartCallFrame => \A m \in Manifests, d \in Durations :
          (/\ Usable(m)
           /\ SumRepeats(m.timeline) < MIN_SEGMENTS_FOR_FULL_TRACK
           /\ (d = NoDuration \/ ExpectedSegments(d) \div 2 > SumRepeats(m.timeline))
           /\ StartCall(m, d))
              => RejectedAs({"PreviewManifest"})]_vars

\* A first call was rejected as a preview: no stream is active.
C9_PreviewRejectedNoStream ==
    /\ start_call.result = "PreviewManifest"
    /\ calls = 1
    /\ ~has_active_stream

\* C10: a manifest that cannot be used (base64 decode failure, JSON/BTS
\* manifest, no initialization URL, no media template, no segments) makes
\* start_progressive_stream return an error and install no stream state.
ManifestErrors == {"DecodeError", "BtsFormat", "NoInitUrl", "NoMediaTemplate", "NoSegments"}

C10_UnusableManifestRejected ==
    [][StartCallFrame => \A m \in Manifests, d \in Durations :
          (/\ (~m.b64_ok \/ m.json \/ ~m.init \/ ~m.media \/ SumRepeats(m.timeline) = 0)
           /\ StartCall(m, d))
              => RejectedAs(ManifestErrors)]_vars

\* A first call with a timeline without segments was rejected: no stream is
\* active.
C10_NoSegmentsRejected ==
    /\ start_call.result = "NoSegments"
    /\ calls = 1
    /\ ~has_active_stream


\* The step in which start_progressive_stream returns its Ok result.
StartReturnsOk == start_call.result = "pending" /\ start_call'.result = "Ok"

\* C11: when start_progressive_stream returns success, a stream state exists for
\* the id with download_queue = [0 .. total_chunks-1] and current_chunk = 0,
\* chunk 0 is ready with its file on disk and no other chunk is ready, and the
\* returned total_chunks and first_chunk_path are those of the state.
C11_StartSuccessPostcondition ==
    [][StartReturnsOk =>
          /\ TrackId \in DOMAIN progressive_streams'
          /\ LET st == progressive_streams'[TrackId]
             IN  /\ st.download_queue = [j \in 1..total_chunks(st) |-> j - 1]
                 /\ st.current_chunk = 0
                 /\ IsReady(st, 0)
                 /\ ChunkPath(At(st.chunks, 0).file_path) \in DOMAIN files'
                 /\ \A i \in 1..(total_chunks(st) - 1) : ~IsReady(st, i)
                 /\ start_call'.total_chunks = total_chunks(st)
                 /\ start_call'.first_chunk_path = At(st.chunks, 0).file_path]_vars

\* start_progressive_stream has returned Ok with a chunk count and a path, and
\* no stream state exists: cleanup_stream ran during the fetch of chunk 0.
C11_SuccessWithoutStream ==
    /\ start_call.result = "Ok"
    /\ start_call.total_chunks >= 1
    /\ start_call.first_chunk_path = 0
    /\ ~has_active_stream
    /\ \A p \in Tasks : fetch[p].pc = "idle"

\* The step in which the transcoder run by finalize_stream ends successfully.
TranscoderSucceeds == fetch["fin"].pc = "ffmpeg" /\ fetch'["fin"].pc = "fin_remove"

\* C12: whenever the transcoder run by finalize_stream succeeds, the list of
\* files it was given is exactly the chunk files of the indices
\* 0 .. total_chunks-1 of the stream, in ascending order, no chunk missing.
C12_TranscoderGetsAllChunks ==
    [][(TranscoderSucceeds /\ has_active_stream) =>
          fin_call.transcoded = [j \in 1..total_chunks(Stream) |-> j - 1]]_vars

\* finalize_stream has returned Ok for a two-chunk stream and the transcoder
\* was given the file of chunk 1 alone.
C12_FinalizedWithoutFirstChunk ==
    /\ fin_call.result = "Ok"
    /\ fin_call.transcoded = <<1>>
    /\ fetch["fin"].pc = "idle"

\* C13: finalize_stream called for an id with no stream, or for a stream whose
\* is_complete is false, returns an error, does not start the transcoder, and
\* leaves the stream state and every file as they were.
C13_RefusedFinalizeChangesNothing ==
    [][(FinCall /\ (~has_active_stream \/ ~Stream.is_complete)) =>
          /\ fin_call'.result \in {"NoStream", "NotComplete"}
          /\ fetch'["fin"].pc = "idle"
          /\ fin_call'.transcoded = fin_call.transcoded
          /\ UNCHANGED <<progressive_streams, files>>]_vars

\* finalize_stream was refused for a stream that is not complete and has the
\* file of its ready chunk 0 on disk.
C13_RefusedWhileIncomplete ==
    /\ fin_call.result = "NotComplete"
    /\ has_active_stream
    /\ ~Stream.is_complete
    /\ IsReady(Stream, 0)
    /\ Exists(ChunkPath(0))
    /\ fin_call.transcoded = <<>>

\* The steps of finalize_stream in which it returns the transcoder's error,
\* removes the stream state, and returns Ok.
FinFails == fin_call.result = "pending" /\ fin_call'.result = "TranscoderFailed"

FinRemoves == fetch["fin"].pc = "fin_remove" /\ fetch'["fin"].pc = "fin_delete"

FinReturnsOk == fin_call.result = "pending" /\ fin_call'.result = "Ok"

ChunkFiles(fs) == {path \in DOMAIN fs : path[1] = "m4a"}

\* C14: finalize_stream destroys the stream exactly when it succeeds.  When the
\* transcoder fails the call returns an error and leaves the stream state and
\* every chunk file as they were; when it succeeds the call removes the stream
\* state (has_active_stream is false after the removal) and returns with no
\* chunk file, temp file or concat list left in the cache directory.
C14_DestroyedExactlyOnSuccess ==
    [][/\ FinFails =>
            /\ UNCHANGED progressive_streams
            /\ \A path \in ChunkFiles(files) :
                  path \in DOMAIN files' /\ files'[path] = files[path]
       /\ FinRemoves => ~has_active_stream'
       /\ FinReturnsOk => files' = NoFiles]_vars

\* finalize_stream has returned Ok after joining two chunks through the concat
\* list: no stream state and no file is left.
C14_FinalizedTwoChunks ==
    /\ fin_call.result = "Ok"
    /\ fin_call.transcoded = <<0, 1>>
    /\ ~has_active_stream
    /\ files = NoFiles

\* The transcoder failed: the complete stream and the files of its two chunks
\* are still there.
C14_FailedAndIntact ==
    /\ fin_call.result = "TranscoderFailed"
    /\ fin_call.transcoded = <<0, 1>>
    /\ has_active_stream
    /\ AllDownloaded(Stream)
    /\ Exists(ChunkPath(0))
    /\ Exists(ChunkPath(1))

\* No stream is installed and no command, fetch or worker is running.
Quiescent ==
    /\ ~has_active_stream
    /\ \A p \in Tasks : fetch[p].pc = "idle"
    /\ ~mt_call.active

\* C15: once cleanup_stream has removed the stream and deleted its files, and
\* every fetch that was in flight has finished, the cache directory holds no
\* file of the id: no chunk file, temp file or concat list.
C15_NoFileOutlivesCleanup == Quiescent => files = NoFiles

\* cleanup_stream removed the stream and returned, the fetch of chunk 0 that was
\* in progress has returned, and the file of chunk 0 is in the cache directory.
C15_ChunkFileAfterCleanup ==
    /\ Quiescent
    /\ calls = 2
    /\ Exists(ChunkPath(0))
    /\ ~Exists(TempPath(0))

\* A worker is in the middle of the fetch of a chunk.
InFetch(w) ==
    fetch[w].pc \in {"create", "segments", "rename", "unflight_ok", "unflight_err",
                     "wupdate", "wfail"}

\* C16: with the stream removed, a worker at its queue inspection exits and
\* starts no fetch, a worker in a fetch goes on with that fetch only, and no
\* step other than the insert of start_progressive_stream brings a stream
\* state back: a fetch that completes after the removal does not re-create it.
C16_WorkersStopAfterCleanup ==
    [][/\ \A w \in Workers :
             (~has_active_stream /\ fetch[w].pc = "pick" /\ fetch'[w] /= fetch[w])
                 => (fetch'[w].pc = "done" /\ UNCHANGED <<files, downloading_chunks>>)
       /\ \A w \in Workers :
             (~has_active_stream /\ InFetch(w) /\ fetch'[w] /= fetch[w])
                 => (fetch'[w].pc = "pick" \/ fetch'[w].chunk = fetch[w].chunk)
       /\ (~has_active_stream /\ has_active_stream') => fetch["start"].pc = "init_get"]_vars

\* cleanup_stream removed the stream while a worker was fetching chunk 1; that
\* worker has since finished the fetch and exited, the other one has exited,
\* and there is no stream state.
C16_WorkersExitedAfterCleanup ==
    /\ mt_call.active
    /\ ~has_active_stream
    /\ \A w \in Workers : fetch[w].pc = "done"
    /\ fetch["cleanup"].pc = "idle"
    /\ Exists(ChunkPath(1))

\* C17: every call of download_all_chunks_multithreaded eventually returns,
\* whatever the outcomes of the segment GETs, each of which terminates.
C17_MultithreadedReturns == mt_call.active ~> ~mt_call.active

\* A worker is about to inspect the queue again after the fetch of chunk 1
\* failed: chunk 1 is not ready, not in flight, and first in the queue.
C17_FailedChunkFirstAgain ==
    /\ mt_call.active
    /\ has_active_stream
    /\ ~Stream.is_complete
    /\ \E w \in Workers : fetch[w].pc = "wfail" /\ fetch[w].chunk = 1
    /\ WorkerChoice(progressive_streams, downloading_chunks) = 1

\* The step in which download_all_chunks_multithreaded returns.
MtReturns == mt_call.active /\ ~mt_call'.active

\* C18: with every segment GET succeeding and the stream never cleaned up, a
\* call of download_all_chunks_multithreaded eventually returns, and when it
\* returns every chunk is ready, is_complete is true and no chunk index is
\* left in the in-flight set.
C18_ReturnsWithAllChunksReady ==
    /\ mt_call.active ~> ~mt_call.active
    /\ [][MtReturns =>
             /\ has_active_stream'
             /\ AllDownloaded(Stream')
             /\ Stream'.is_complete
             /\ downloading_chunks = {}]_vars

\* Both workers have exited because the stream is marked complete, the call is
\* about to return, and chunk 1 of the three chunks was never fetched.
C18_WorkersExitedChunkMissing ==
    /\ mt_call.active
    /\ \A w \in Workers : fetch[w].pc = "done"
    /\ has_active_stream
    /\ Stream.is_complete
    /\ total_chunks(Stream) = 3
    /\ ~IsReady(Stream, 1)
    /\ fetch["next"].pc = "idle"

\* The stream was last reprioritised for a seek to one of its chunks.
SeekInForce ==
    /\ has_active_stream
    /\ Stream.needs_reprioritize
    /\ Stream.priority_chunk < total_chunks(Stream)

\* C19: after reprioritize_for_seek(id, k) with k < total_chunks, a worker
\* starts the fetch of an index below k (puts it in the in-flight set) only
\* when every index from k on is ready or in flight.
C19_SeekTargetFetchedFirst ==
    [][SeekInForce =>
          \A c \in downloading_chunks' \ downloading_chunks :
              c < Stream.priority_chunk =>
                  \A i \in Stream.priority_chunk..(total_chunks(Stream) - 1) :
                      IsReady(Stream, i) \/ i \in downloading_chunks]_vars

\* After a seek to chunk 2 of three chunks one worker fetches chunk 2 and the
\* other one has then started on chunk 1.
C19_TargetThenEarlierChunk ==
    /\ SeekInForce
    /\ Stream.priority_chunk = 2
    /\ Stream.download_queue = <<2, 1>>
    /\ downloading_chunks = {1, 2}
    /\ \E w \in Workers : fetch[w].chunk = 1 /\ fetch[w].pc = "create"
    /\ \E w \in Workers : fetch[w].chunk = 2 /\ fetch[w].pc = "segments"

\* The steps in which download_next_chunk returns from its already-ready path
\* and from its fetch.
NextReturnsReady == fetch["next"].pc = "next_ready" /\ fetch'["next"].pc = "idle"

NextReturnsFetched == fetch["next"].pc = "update" /\ fetch'["next"].pc = "idle"

NextResult(path, last, ready) ==
    /\ next_call'.result = "Ok"
    /\ next_call'.chunk_index = next_call.chunk_index
    /\ next_call'.chunk_path = path
    /\ next_call'.is_last = last
    /\ next_call'.is_ready = ready

\* C20: download_next_chunk, with next = current_chunk + 1: when
\* next >= total_chunks it returns is_last = true, is_ready = false and no path
\* and fetches nothing; when chunk next is ready it returns that chunk's path
\* without fetching; otherwise it fetches chunk next and on success returns its
\* path with is_ready = true and is_last = (next = total_chunks - 1).  No step
\* of the call changes current_chunk or download_queue.
C20_NextChunkResult ==
    [][/\ NextCall =>
             LET next == Stream.current_chunk + 1
                 tc == total_chunks(Stream)
             IN  /\ next >= tc =>
                        /\ next_call' = [NextReset EXCEPT !.result = "Ok", !.chunk_index = next,
                                                          !.total_chunks = tc, !.is_last = TRUE]
                        /\ fetch'["next"].pc = "idle"
                 /\ (next < tc /\ IsReady(Stream, next)) =>
                        fetch'["next"] = [IdleTask EXCEPT !.pc = "next_ready", !.chunk = next]
                 /\ (next < tc /\ ~IsReady(Stream, next)) =>
                        fetch'["next"] = [IdleTask EXCEPT !.pc = "snap", !.chunk = next]
       /\ NextReturnsReady =>
             /\ NextResult(fetch["next"].chunk,
                           fetch["next"].chunk = next_call.total_chunks - 1, TRUE)
             /\ files' = files
       /\ NextReturnsFetched =>
             NextResult(fetch["next"].chunk,
                        fetch["next"].chunk = next_call.total_chunks - 1, TRUE)
       /\ (fetch'["next"] /= fetch["next"] /\ has_active_stream /\ has_active_stream') =>
             /\ Stream'.current_chunk = Stream.current_chunk
             /\ Stream'.download_queue = Stream.download_queue]_vars

\* download_next_chunk found chunk 1 ready, cleanup_stream removed the stream
\* before the call read the path, and the call panicked with the mutex held.
C20_ReadyPathPanicked ==
    /\ next_call.result = "Panicked"
    /\ poisoned
    /\ ~has_active_stream
    /\ fetch["next"].pc = "idle"
(***************************************************************************)
(* FortySegmentSpec: the pure chunk-plan functions applied to the plan     *)
(* start_progressive_stream builds for a manifest of 40 segments.          *)
(***************************************************************************)
FortySegmentInit ==
    /\ NewCache
    /\ plan = NewPlan(40, FIRST_CHUNK_SEGMENTS, REGULAR_CHUNK_SEGMENTS)

FortySegmentSpec == FortySegmentInit /\ [][PlanNext]_vars

RangeLen(r) == r[2] - r[1]

FortySegmentPlan ==
    /\ plan.op # "none"
    /\ plan.total_segments = 40
    /\ plan.first_chunk_segments = FIRST_CHUNK_SEGMENTS
    /\ plan.segments_per_chunk = REGULAR_CHUNK_SEGMENTS

\* C21 (as stated): for a manifest with 40 segments (F = 2, R = 8) the chunk
\* plan has total_chunks = 6, chunk 0 covers segments 1-2 (indices [0, 2)),
\* and each of the chunks 1 to 5 covers exactly 8 segments.
C21_FortySegmentsEightEach ==
    FortySegmentPlan =>
        /\ plan.count = 6
        /\ plan.ranges[1] = <<0, 2>>
        /\ \A i \in 1..5 : RangeLen(plan.ranges[i + 1]) = 8

\* C21 (amended): for a manifest with 40 segments (F = 2, R = 8) the chunk
\* plan has total_chunks = 6, chunk 0 covers segments 1-2, each of the chunks
\* 1 to 4 covers exactly 8 segments, and chunk 5 covers the remaining 6
\* segments (35-40, indices [34, 40)).
C21_FortySegmentsShortLast ==
    FortySegmentPlan =>
        /\ plan.count = 6
        /\ plan.ranges[1] = <<0, 2>>
        /\ \A i \in 1..4 : /\ RangeLen(plan.ranges[i + 1]) = 8
                           /\ plan.ranges[i + 1][1] = 2 + 8 * (i - 1)
        /\ plan.ranges[6] = <<34, 40>>

\* The plan of the 40-segment manifest has been computed: six chunks, the
\* last one ending at segment 40.
C21_FortySegmentsPlanned ==
    /\ FortySegmentPlan
    /\ plan.op = "chunks"
    /\ plan.count = 6
    /\ plan.ranges[6][2] = 40

(***************************************************************************)
(* The playback engine: the command channel.                               *)
(***************************************************************************)
\* The command a recv() on the channel returns, and what stays in the
\* channel: a receive that takes the newest command instead of the oldest.
DequeueNewest(q) == [cmd |-> q[Len(q)], rest |-> SubSeq(q, 1, Len(q) - 1)]

\* mpsc::Receiver::recv: the oldest command in the channel.
Dequeue(q) == [cmd |-> Head(q), rest |-> Tail(q)]

\* What the AudioEngine method returns to its caller: play, append_samples
\* and set_device return the result of send(), Err(HostInit) when the
\* receiver is gone; the other methods discard it.
EngineResult(op) ==
    IF op \in {"Play", "AppendSamples", "SetDevice"} /\ thread.pc = "exited"
    THEN "HostInit"
    ELSE "Ok"

\* AudioEngine::play, append_samples, pause, resume, stop, seek, set_volume,
\* set_device: one command into the channel.
Send(op, path, n) ==
    /\ connected
    /\ Len(sent) < MaxCommands
    /\ LET c == AudioCommand(op, path, n)
           id == Len(sent) + 1
       IN  /\ command_queue' = IF thread.pc = "exited"
                               THEN command_queue
                               ELSE Append(command_queue, [id |-> id, cmd |-> c])
           /\ sent' = Append(sent, [id |-> id, cmd |-> c, ret |-> EngineResult(op)])
    /\ UNCHANGED <<state, sample_buffer, buffer_position, stream, device, output_sample_rate,
                   output_channels, connected, thread, callback, applied>>
    /\ UNCHANGED <<streamVars, plan, lockVars>>

\* The AudioEngine is dropped: the channel loses its only sender.
DropEngine ==
    /\ connected
    /\ connected' = FALSE
    /\ UNCHANGED <<state, sample_buffer, buffer_position, stream, device, output_sample_rate,
                   output_channels, command_queue, thread, callback, sent, applied>>
    /\ UNCHANGED <<streamVars, plan, lockVars>>

(***************************************************************************)
(* The playback engine: AudioThread::run and its handlers.                 *)
(***************************************************************************)
\* run() is at recv() and the command it returns is an op command
Receives(op) ==
    /\ thread.pc = "recv"
    /\ command_queue # <<>>
    /\ Dequeue(command_queue).cmd.cmd.op = op

Received == Dequeue(command_queue).cmd

\* the handler of the received command runs to its end in this step
Handled(result) ==
    /\ command_queue' = Dequeue(command_queue).rest
    /\ applied' = Append(applied, [id |-> Received.id, cmd |-> Received.cmd, result |-> result])
    /\ thread' = IdleThread

\* the handler of the received command starts and continues at pc
Started(pc) ==
    /\ command_queue' = Dequeue(command_queue).rest
    /\ applied' = Append(applied, [id |-> Received.id, cmd |-> Received.cmd, result |-> "running"])
    /\ thread' = [IdleThread EXCEPT !.pc = pc, !.cmd = Received.cmd]

\* the running handler returns result
Returned(result) == [applied EXCEPT ![Len(applied)].result = result]

\* cpal drops an output stream only between two runs of its callback
CanDropStream == callback.pc = "idle"

Pause ==
    /\ Receives("Pause")
    /\ state' = [state EXCEPT !.is_playing = FALSE]
    /\ Handled("Ok")
    /\ UNCHANGED <<sample_buffer, buffer_position, stream, device, output_sample_rate,
                   output_channels, connected, callback, sent>>
    /\ UNCHANGED <<streamVars, plan, lockVars>>

Resume ==
    /\ Receives("Resume")
    /\ state' = [state EXCEPT !.is_playing = TRUE]
    /\ Handled("Ok")
    /\ UNCHANGED <<sample_buffer, buffer_position, stream, device, output_sample_rate,
                   output_channels, connected, callback, sent>>
    /\ UNCHANGED <<streamVars, plan, lockVars>>

\* volume.clamp(0.0, 1.0)
ClampVolume(volume) == Max(0, Min(volume, 1))

SetVolume ==
    /\ Receives("SetVolume")
    /\ state' = [state EXCEPT !.volume = ClampVolume(Received.cmd.n)]
    /\ Handled("Ok")
    /\ UNCHANGED <<sample_buffer, buffer_position, stream, device, output_sample_rate,
                   output_channels, connected, callback, sent>>
    /\ UNCHANGED <<streamVars, plan, lockVars>>

\* set_device_internal: the listed device of that name, None when the host
\* lists none of that name; unchanged when the host cannot list its devices.
SetDevice ==
    /\ Receives("SetDevice")
    /\ \E listing \in BOOLEAN :
          device' = IF ~listing THEN device
                    ELSE IF Received.cmd.path = ListedDevice THEN ListedDevice
                    ELSE NoDevice
    /\ Handled("Ok")
    /\ UNCHANGED <<state, sample_buffer, buffer_position, stream, output_sample_rate,
                   output_channels, connected, callback, sent>>
    /\ UNCHANGED <<streamVars, plan, lockVars>>

stop_internal(st) ==
    [st EXCEPT !.is_playing = FALSE, !.position = Rat(0, 1), !.current_track = NoTrack]

Stop ==
    /\ Receives("Stop")
    /\ CanDropStream
    /\ stream' = NoStream
    /\ callback' = IdleCallback
    /\ state' = stop_internal(state)
    /\ Handled("Ok")
    /\ UNCHANGED <<sample_buffer, buffer_position, device, output_sample_rate,
                   output_channels, connected, sent>>
    /\ UNCHANGED <<streamVars, plan, lockVars>>

\* (position * sample_rate as f64 * channels as f64) as usize, for a
\* position of halves / 2 seconds: the cast truncates and saturates at 0.
SamplePosition(halves, sample_rate, channels) ==
    IF halves < 0 THEN 0 ELSE (halves * sample_rate * channels) \div 2

\* seek_internal up to the write of the cursor
SeekCursor ==
    /\ Receives("Seek")
    /\ buffer_position' = SamplePosition(Received.cmd.n, state.sample_rate, state.channels)
    /\ Started("seek_state")
    /\ UNCHANGED <<state, sample_buffer, stream, device, output_sample_rate,
                   output_channels, connected, callback, sent>>
    /\ UNCHANGED <<streamVars, plan, lockVars>>

\* seek_internal: the write of state.position
SeekState ==
    /\ thread.pc = "seek_state"
    /\ state' = [state EXCEPT !.position = Rat(thread.cmd.n, 2)]
    /\ applied' = Returned("Ok")
    /\ thread' = IdleThread
    /\ UNCHANGED <<sample_buffer, buffer_position, stream, device, output_sample_rate,
                   output_channels, command_queue, connected, callback, sent>>
    /\ UNCHANGED <<streamVars, plan, lockVars>>

seek_internal == SeekCursor \/ SeekState

\* The handler returns Err(err) to run(), which logs it.
Fails(err) ==
    /\ applied' = Returned(err)
    /\ thread' = IdleThread

\* play_internal without the drop of the stream of the previous track
PlayStopKeepStream ==
    /\ Receives("Play")
    /\ state' = stop_internal(state)
    /\ Started("play_load")
    /\ UNCHANGED <<sample_buffer, buffer_position, stream, device, output_sample_rate,
                   output_channels, connected, callback, sent>>
    /\ UNCHANGED <<streamVars, plan, lockVars>>

\* play_internal: stop_internal, which drops the stream of the previous track
PlayStop ==
    /\ Receives("Play")
    /\ CanDropStream
    /\ stream' = NoStream
    /\ callback' = IdleCallback
    /\ state' = stop_internal(state)
    /\ Started("play_load")
    /\ UNCHANGED <<sample_buffer, buffer_position, device, output_sample_rate,
                   output_channels, connected, sent>>
    /\ UNCHANGED <<streamVars, plan, lockVars>>

\* A SupportedStreamConfigRange of the device, and the config the device
\* reports as its default (NoConfig: default_output_config() fails).
ConfigRange(channels, min, max) ==
    [channels |-> channels, min_sample_rate |-> min, max_sample_rate |-> max]
NoConfig == [channels |-> NoFormat, sample_rate |-> NoFormat]

\* The closure of exact_match and stereo_match: the range c has this channel
\* count and covers the sample rate.
Covers(c, channels, sample_rate) ==
    /\ c.channels = channels
    /\ c.min_sample_rate <= sample_rate
    /\ c.max_sample_rate >= sample_rate

\* best_config: of the ranges with the source's channel count or two
\* channels, the one with the largest max_sample_rate (max_by_key returns the
\* last of several largest); <<>> when there is none.
BestConfig(supported_configs, channels) ==
    LET kept == {i \in 1..Len(supported_configs) :
                    \/ supported_configs[i].channels = channels
                    \/ supported_configs[i].channels = 2}
        largest == {i \in kept : \A j \in kept :
                       supported_configs[j].max_sample_rate <= supported_configs[i].max_sample_rate}
    IN  IF kept = {} THEN <<>>
        ELSE <<supported_configs[CHOOSE i \in largest : \A j \in largest : j <= i]>>

\* A faulty negotiation: the stereo match is tried before the exact match.
StreamConfigStereoFirst(supported_configs, default_config, sample_rate, channels) ==
    IF \E i \in 1..Len(supported_configs) : Covers(supported_configs[i], 2, sample_rate)
    THEN [err |-> "none", channels |-> 2, sample_rate |-> sample_rate]
    ELSE IF \E i \in 1..Len(supported_configs) :
                Covers(supported_configs[i], channels, sample_rate)
    THEN [err |-> "none", channels |-> channels, sample_rate |-> sample_rate]
    ELSE IF BestConfig(supported_configs, channels) # <<>>
    THEN [err |-> "none", channels |-> BestConfig(supported_configs, channels)[1].channels,
          sample_rate |-> BestConfig(supported_configs, channels)[1].max_sample_rate]
    ELSE IF default_config = NoConfig
    THEN [err |-> "DeviceConfig", channels |-> NoFormat, sample_rate |-> NoFormat]
    ELSE [err |-> "none", channels |-> default_config.channels,
          sample_rate |-> default_config.sample_rate]

\* The StreamConfig play_internal chooses for a source of this sample rate
\* and channel count: the exact match, else the source's rate in stereo, else
\* the best config, else the device default, whose lookup may fail.
StreamConfig(supported_configs, default_config, sample_rate, channels) ==
    IF \E i \in 1..Len(supported_configs) :
          Covers(supported_configs[i], channels, sample_rate)
    THEN [err |-> "none", channels |-> channels, sample_rate |-> sample_rate]
    ELSE IF \E i \in 1..Len(supported_configs) : Covers(supported_configs[i], 2, sample_rate)
    THEN [err |-> "none", channels |-> 2, sample_rate |-> sample_rate]
    ELSE IF BestConfig(supported_configs, channels) # <<>>
    THEN [err |-> "none", channels |-> BestConfig(supported_configs, channels)[1].channels,
          sample_rate |-> BestConfig(supported_configs, channels)[1].max_sample_rate]
    ELSE IF default_config = NoConfig
    THEN [err |-> "DeviceConfig", channels |-> NoFormat, sample_rate |-> NoFormat]
    ELSE [err |-> "none", channels |-> default_config.channels,
          sample_rate |-> default_config.sample_rate]

\* The output device of the engine's model: it supports the format of every
\* file of the model, so that play_internal takes the exact_match branch and
\* applies neither resample_audio nor convert_channels.
DeviceConfigs == <<ConfigRange(TrackChannels, TrackRate, TrackRate)>>

\* play_internal from the open of the file to the update of the state: an
\* error of the file or of the device, or the new track in the buffer.
PlayLoad ==
    /\ thread.pc = "play_load"
    /\ LET d == OpenAndDecode(thread.cmd.path)
       IN  \/ /\ d.err # "none"
              /\ Fails(d.err)
              /\ UNCHANGED <<state, sample_buffer, buffer_position, output_sample_rate,
                             output_channels>>
           \/ /\ d.err = "none"
              /\ \E err \in {"DeviceConfig"} \cup (IF device = NoDevice THEN {"NoDevice"} ELSE {}) :
                    Fails(err)
              /\ UNCHANGED <<state, sample_buffer, buffer_position, output_sample_rate,
                             output_channels>>
           \/ /\ d.err = "none"
              /\ LET config == StreamConfig(DeviceConfigs, NoConfig, d.sample_rate, d.channels)
                     final_samples == d.samples
                 IN  /\ output_sample_rate' = config.sample_rate
                     /\ output_channels' = config.channels
                     /\ sample_buffer' = final_samples
                     /\ buffer_position' = 0
                     /\ state' = [state EXCEPT
                            !.current_track = thread.cmd.path,
                            !.duration = Rat(Len(final_samples),
                                             config.sample_rate * config.channels),
                            !.position = Rat(0, 1),
                            !.sample_rate = config.sample_rate,
                            !.channels = config.channels,
                            !.is_playing = TRUE,
                            !.track_finished = FALSE]
              /\ thread' = [thread EXCEPT !.pc = "play_build"]
              /\ UNCHANGED applied
    /\ UNCHANGED <<stream, device, command_queue, connected, callback, sent>>
    /\ UNCHANGED <<streamVars, plan, lockVars>>

\* play_internal: build_output_stream, whose closure captures the output
\* sample rate and channel count; it fails or the stream exists.
PlayBuild ==
    /\ thread.pc = "play_build"
    /\ \/ /\ thread' = [thread EXCEPT !.pc = "play_start", !.built = TRUE]
          /\ callback' = [IdleCallback EXCEPT !.sr = output_sample_rate,
                                              !.channel_count = output_channels]
          /\ UNCHANGED applied
       \/ /\ Fails("StreamBuild")
          /\ UNCHANGED callback
    /\ UNCHANGED <<state, sample_buffer, buffer_position, stream, device, output_sample_rate,
                   output_channels, command_queue, connected, sent>>
    /\ UNCHANGED <<streamVars, plan, lockVars>>

\* play_internal: stream.play(), then self.stream = Some(stream); when
\* play() fails the stream just built is dropped.
PlayStart ==
    /\ thread.pc = "play_start"
    /\ \/ /\ stream' = "Some"
          /\ applied' = Returned("Ok")
          /\ thread' = IdleThread
          /\ UNCHANGED callback
       \/ /\ CanDropStream
          /\ Fails("StreamBuild")
          /\ callback' = IdleCallback
          /\ UNCHANGED stream
    /\ UNCHANGED <<state, sample_buffer, buffer_position, device, output_sample_rate,
                   output_channels, command_queue, connected, sent>>
    /\ UNCHANGED <<streamVars, plan, lockVars>>

play_internal == PlayStop \/ PlayLoad \/ PlayBuild \/ PlayStart

\* append_samples_internal from its start to the decoded samples: the file
\* must exist, a Play must have set the output format, the file must decode.
AppendOpen ==
    /\ Receives("AppendSamples")
    /\ LET d == OpenAndDecode(Received.cmd.path)
           err == IF d.err = "FileNotFound" THEN "FileNotFound"
                  ELSE IF output_sample_rate = NoFormat \/ output_channels = NoFormat
                       THEN "Decode"
                  ELSE d.err
       IN  IF err # "none"
           THEN Handled(err)
           ELSE /\ command_queue' = Dequeue(command_queue).rest
                /\ applied' = Append(applied, [id |-> Received.id, cmd |-> Received.cmd,
                                               result |-> "running"])
                /\ thread' = [IdleThread EXCEPT !.pc = "append_extend",
                                                !.cmd = Received.cmd,
                                                !.samples = d.samples]
    /\ UNCHANGED <<state, sample_buffer, buffer_position, stream, device, output_sample_rate,
                   output_channels, connected, callback, sent>>
    /\ UNCHANGED <<streamVars, plan, lockVars>>

\* The buffer after the append: the new samples replace the old ones.
ExtendReplacing(buffer, final_samples) == final_samples

\* The buffer after the append: one sample of silence between the old and
\* the new samples.
ExtendAfterSilence(buffer, final_samples) == buffer \o <<0>> \o final_samples

\* buffer.extend(final_samples.iter())
Extend(buffer, final_samples) == buffer \o final_samples

\* append_samples_internal: the write of the buffer, which waits for the
\* callback's read lock.  gapless records that the buffer grew while a
\* stream was playing from a cursor before the old end.
AppendExtend ==
    /\ thread.pc = "append_extend"
    /\ callback.pc = "idle"
    /\ sample_buffer' = Extend(sample_buffer, thread.samples)
    /\ thread' = [thread EXCEPT
                    !.pc = "append_state",
                    !.old_len = Len(sample_buffer),
                    !.gapless = /\ state.is_playing
                                /\ stream # NoStream
                                /\ buffer_position < Len(sample_buffer)
                                /\ thread.samples # <<>>]
    /\ UNCHANGED <<state, buffer_position, stream, device, output_sample_rate,
                   output_channels, command_queue, connected, callback, sent, applied>>
    /\ UNCHANGED <<streamVars, plan, lockVars>>

\* The state after the append: the duration of the whole buffer, and
\* track_finished = false, is_playing = true.
AppendedState(st, len, rate, channels) ==
    [st EXCEPT !.duration = Rat(len, rate * channels),
               !.track_finished = FALSE,
               !.is_playing = TRUE]

\* append_samples_internal: the update of the state
AppendState ==
    /\ thread.pc = "append_state"
    /\ state' = AppendedState(state, Len(sample_buffer), output_sample_rate, output_channels)
    /\ applied' = Returned("Ok")
    /\ thread' = [IdleThread EXCEPT !.old_len = thread.old_len, !.gapless = thread.gapless]
    /\ UNCHANGED <<sample_buffer, buffer_position, stream, device, output_sample_rate,
                   output_channels, command_queue, connected, callback, sent>>
    /\ UNCHANGED <<streamVars, plan, lockVars>>

append_samples_internal == AppendOpen \/ AppendExtend \/ AppendState

\* run(): the channel is empty and has no sender (recv returns Err), or the
\* command is Shutdown: the loop ends and the thread drops its stream.
ThreadExit ==
    /\ thread.pc = "recv"
    /\ \/ command_queue = <<>> /\ ~connected
       \/ command_queue # <<>> /\ Dequeue(command_queue).cmd.cmd.op = "Shutdown"
    /\ CanDropStream
    /\ thread' = [IdleThread EXCEPT !.pc = "exited"]
    /\ stream' = NoStream
    /\ callback' = IdleCallback
    /\ UNCHANGED <<state, sample_buffer, buffer_position, device, output_sample_rate,
                   output_channels, command_queue, connected, sent, applied>>
    /\ UNCHANGED <<streamVars, plan, lockVars>>

(***************************************************************************)
(* The playback engine: the output callback.                               *)
(***************************************************************************)
\* The loop over the slots of the slice: one sample of the buffer times the
\* volume per slot while playing and before the end of the buffer, 0.0
\* otherwise.
RECURSIVE FillSlots(_, _, _, _, _)
FillSlots(buffer, pos, slots, is_playing, volume) ==
    IF slots = 0
    THEN [data |-> <<>>, pos |-> pos, finished_this_frame |-> FALSE]
    ELSE IF is_playing /\ pos < Len(buffer)
         THEN LET rest == FillSlots(buffer, pos + 1, slots - 1, is_playing, volume)
              IN  [rest EXCEPT !.data = <<At(buffer, pos) * volume>> \o @]
         ELSE LET rest == FillSlots(buffer, pos, slots - 1, is_playing, volume)
              IN  [rest EXCEPT
                     !.data = <<0>> \o @,
                     !.finished_this_frame =
                         @ \/ (is_playing /\ pos >= Len(buffer) /\ buffer # <<>>)]

\* The callback from its start to drop(pos): it holds the read lock of the
\* buffer and the write lock of the cursor, takes volume and is_playing from
\* the state and fills the slice.
CallbackFill ==
    /\ stream # NoStream \/ thread.built
    /\ callback.pc = "idle"
    /\ LET r == FillSlots(sample_buffer, buffer_position,
                          CallbackFrames * callback.channel_count,
                          state.is_playing, state.volume)
       IN  /\ buffer_position' = r.pos
           /\ callback' = [callback EXCEPT
                             !.pc = "filled",
                             !.data = r.data,
                             !.finished_this_frame = r.finished_this_frame,
                             !.current_pos = Rat(r.pos, callback.sr * callback.channel_count)]
    /\ UNCHANGED <<state, sample_buffer, stream, device, output_sample_rate,
                   output_channels, command_queue, connected, thread, sent, applied>>
    /\ UNCHANGED <<streamVars, plan, lockVars>>

\* The state after the callback's write: the position, and the finish of
\* the track when this run reached the end and track_finished is not set.
FinishedState(st, current_pos, finished_this_frame) ==
    IF finished_this_frame /\ ~st.track_finished
    THEN [st EXCEPT !.position = current_pos, !.track_finished = TRUE, !.is_playing = FALSE]
    ELSE [st EXCEPT !.position = current_pos]

\* The callback from state.write() to its end, where the read lock of the
\* buffer is released.
CallbackState ==
    /\ callback.pc = "filled"
    /\ state' = FinishedState(state, callback.current_pos, callback.finished_this_frame)
    /\ callback' = [callback EXCEPT !.pc = "idle"]
    /\ UNCHANGED <<sample_buffer, buffer_position, stream, device, output_sample_rate,
                   output_channels, command_queue, connected, thread, sent, applied>>
    /\ UNCHANGED <<streamVars, plan, lockVars>>

output_callback == CallbackFill \/ CallbackState

(***************************************************************************)
(* AudioSpec: the engine under every command.                              *)
(***************************************************************************)
VolumeInputs == {-1, 2}
SeekInputs == {-1, 1, SeekFar}

SendPlay == \E path \in {TrackFile, MissingFile} : Send("Play", path, 0)
SendAppend == \E path \in {ChunkFile, MissingFile} : Send("AppendSamples", path, 0)
SendPause == Send("Pause", NoTrack, 0)
SendResume == Send("Resume", NoTrack, 0)
SendStop == Send("Stop", NoTrack, 0)
SendSeek == \E halves \in SeekInputs : Send("Seek", NoTrack, halves)
SendVolume == \E volume \in VolumeInputs : Send("SetVolume", NoTrack, volume)
SendDevice == \E name \in {ListedDevice, UnlistedDevice} : Send("SetDevice", name, 0)

AudioThreadNext ==
    \/ play_internal
    \/ append_samples_internal
    \/ Pause
    \/ Resume
    \/ Stop
    \/ seek_internal
    \/ SetVolume
    \/ SetDevice
    \/ ThreadExit

AudioNext ==
    \/ SendPlay
    \/ SendAppend
    \/ SendPause
    \/ SendResume
    \/ SendStop
    \/ SendSeek
    \/ SendVolume
    \/ SendDevice
    \/ DropEngine
    \/ AudioThreadNext
    \/ output_callback

AudioSpec == Init /\ [][AudioNext]_vars

(***************************************************************************)
(* Properties of the playback engine.                                      *)
(***************************************************************************)
HandlerRunning == thread.pc \notin {"recv", "exited"}

\* C22: the audio thread applies the commands strictly in the order they
\* were enqueued: the commands received so far are the first commands sent,
\* in that order, the channel holds the following ones in that order, a
\* handler runs only for the last command received and only after the
\* handlers of all earlier commands have returned; and when the thread has
\* exited, every command that was sent has been processed.
C22_CommandsAppliedInOrder ==
    /\ Len(applied) + Len(command_queue) = Len(sent)
    /\ \A i \in 1..Len(applied) :
          /\ applied[i].id = i
          /\ applied[i].cmd = sent[i].cmd
          /\ applied[i].result = "running" => i = Len(applied) /\ HandlerRunning
    /\ \A i \in 1..Len(command_queue) :
          /\ command_queue[i].id = Len(applied) + i
          /\ command_queue[i].cmd = sent[Len(applied) + i].cmd
    /\ HandlerRunning =>
          /\ applied # <<>>
          /\ applied[Len(applied)].result = "running"
          /\ thread.cmd = applied[Len(applied)].cmd
    /\ thread.pc = "exited" =>
          /\ command_queue = <<>>
          /\ Len(applied) = Len(sent)

\* The thread has exited after it processed a successful Play, a Seek and a
\* Pause, and playback is paused.
C22_ExitedAfterAllCommands ==
    /\ thread.pc = "exited"
    /\ Len(applied) >= 3
    /\ applied[1].cmd.op = "Play"
    /\ applied[1].result = "Ok"
    /\ applied[2].cmd.op = "Seek"
    /\ applied[3].cmd.op = "Pause"
    /\ ~state.is_playing

\* C23: in every reachable state the play cursor satisfies
\* 0 <= cursor <= buffer.len() and state.position is within [0, duration]:
\* Seek(s) clamps s to [0, duration], for a negative s, an s larger than the
\* duration and when no track is loaded.
C23_CursorWithinBuffer ==
    /\ 0 <= buffer_position
    /\ buffer_position <= Len(sample_buffer)
    /\ RatLeq(Rat(0, 1), state.position)
    /\ RatLeq(state.position, state.duration)

\* A track is loaded and its stream exists, the Seek has returned, and the
\* cursor is beyond the end of the buffer, the position beyond the duration.
C23_SeekBeyondEnd ==
    /\ stream # NoStream
    /\ sample_buffer # <<>>
    /\ thread.pc = "recv"
    /\ applied # <<>>
    /\ applied[Len(applied)].cmd.op = "Seek"
    /\ buffer_position > Len(sample_buffer)
    /\ ~RatLeq(state.position, state.duration)

IsPrefix(s, t) == Len(s) <= Len(t) /\ SubSeq(t, 1, Len(s)) = s

LastApplied == applied[Len(applied)]

\* C24: a step of AppendSamples never writes the play cursor and never
\* alters the samples already in the buffer (the old buffer is a prefix of
\* the new one); when it completes, duration equals
\* buffer.len() / (out_rate * out_channels) and track_finished is false.
C24_AppendKeepsCursorAndSamples ==
    [][append_samples_internal =>
          /\ buffer_position' = buffer_position
          /\ IsPrefix(sample_buffer, sample_buffer')
          /\ (thread.pc = "append_state" /\ thread'.pc = "recv") =>
                /\ LastApplied'.result = "Ok"
                /\ state'.duration = Rat(Len(sample_buffer'),
                                         output_sample_rate' * output_channels')
                /\ ~state'.track_finished]_vars

\* An AppendSamples has completed on a track that was loaded and partly
\* played: the buffer is longer than before and the cursor is inside it.
C24_AppendedWhilePlaying ==
    /\ thread.pc = "recv"
    /\ applied # <<>>
    /\ LastApplied.cmd.op = "AppendSamples"
    /\ LastApplied.result = "Ok"
    /\ thread.old_len > 0
    /\ Len(sample_buffer) > thread.old_len
    /\ 0 < buffer_position
    /\ buffer_position < Len(sample_buffer)

\* C25: gapless append.  When AppendSamples extended the buffer while a
\* stream was playing from a cursor before the old end (thread.gapless, old
\* end thread.old_len), and no later command has been received, every run of
\* the callback that starts at or before the old end emits the samples of
\* the buffer from the cursor on without a gap: the last old sample is
\* followed directly by the first appended sample, in the same slice or as
\* the last slot of one slice and the first slot of the next; and no run of
\* the callback sets track_finished or clears is_playing before the cursor
\* has reached the new end of the buffer.
C25_GaplessJoin ==
    [][(output_callback /\ thread.gapless) =>
          LET j == thread.old_len
              c == buffer_position
              n == Len(callback'.data)
          IN  /\ (callback.pc = "idle" /\ c <= j) =>
                    /\ Len(sample_buffer) > j
                    /\ At(sample_buffer, j) = DecodedSamples(LastApplied.cmd.path)[1]
                    /\ \A k \in 1..n :
                          c + k - 1 < Len(sample_buffer) =>
                              callback'.data[k] = At(sample_buffer, c + k - 1) * state.volume
                    /\ buffer_position' = Min(c + n, Len(sample_buffer))
                    /\ c = j =>
                          /\ callback.data # <<>>
                          /\ callback.data[Len(callback.data)] =
                                 At(sample_buffer, j - 1) * state.volume
              /\ (callback.pc = "filled"
                    /\ (state'.track_finished # state.track_finished
                           \/ state'.is_playing # state.is_playing)) =>
                    buffer_position >= Len(sample_buffer)]_vars

\* A run of the callback has filled a slice in which the last sample of the
\* track is followed directly by the first sample of the appended chunk, at
\* full volume, and playback goes on.
C25_JoinInsideSlice ==
    /\ thread.gapless
    /\ callback.pc = "filled"
    /\ state.is_playing
    /\ state.volume = 1
    /\ ~callback.finished_this_frame
    /\ \E k \in 1..(Len(callback.data) - 1) :
          /\ callback.data[k] = At(sample_buffer, thread.old_len - 1)
          /\ callback.data[k] = DecodedSamples(TrackFile)[Len(DecodedSamples(TrackFile))]
          /\ callback.data[k + 1] = DecodedSamples(ChunkFile)[1]

\* C26: end-of-track detection.  While is_playing, each slot of a run of
\* the callback emits buffer[cursor] * volume and advances the cursor by
\* one; once the cursor has reached the end of a non-empty buffer the run
\* emits 0.0, and the callback then sets track_finished = true and
\* is_playing = false: every time playback reaches the end of the buffer,
\* also when the track is replayed via Seek and Resume after a previous
\* finish.
C26_EndOfTrackDetected ==
    [][output_callback =>
          LET c == buffer_position
              n == Len(callback'.data)
          IN  /\ callback.pc = "idle" =>
                    /\ \A k \in 1..n :
                          callback'.data[k] =
                              IF state.is_playing /\ c + k - 1 < Len(sample_buffer)
                              THEN At(sample_buffer, c + k - 1) * state.volume
                              ELSE 0
                    /\ buffer_position' =
                          IF state.is_playing /\ c < Len(sample_buffer)
                          THEN Min(c + n, Len(sample_buffer))
                          ELSE c
                    /\ callback'.finished_this_frame =
                          /\ state.is_playing
                          /\ sample_buffer # <<>>
                          /\ c + n > Len(sample_buffer)
              /\ (callback.pc = "filled" /\ callback.finished_this_frame) =>
                    /\ state'.track_finished
                    /\ ~state'.is_playing]_vars

\* The track was played to its end, then replayed with Seek and Resume; the
\* replay has reached the end of the buffer, the callback has run there and
\* has emitted silence, and is_playing is still true.
C26_ReplayEndUnnoticed ==
    /\ Len(applied) = 3
    /\ applied[1].cmd.op = "Play"
    /\ applied[2].cmd.op = "Seek"
    /\ applied[3].cmd.op = "Resume"
    /\ thread.pc = "recv"
    /\ callback.pc = "idle"
    /\ sample_buffer # <<>>
    /\ buffer_position = Len(sample_buffer)
    /\ \A k \in 1..Len(callback.data) : callback.data[k] = 0
    /\ callback.data # <<>>
    /\ state.is_playing
    /\ state.track_finished

(***************************************************************************)
(* PlaySpec: Play and AppendSamples of every file, good or bad, with       *)
(* Resume, the callback and the end of the engine.                         *)
(***************************************************************************)
SendPlayAny == \E path \in AudioFiles \cup BadFiles : Send("Play", path, 0)
SendAppendAny == \E path \in {ChunkFile} \cup BadFiles : Send("AppendSamples", path, 0)

PlayNext ==
    \/ SendPlayAny
    \/ SendAppendAny
    \/ SendResume
    \/ DropEngine
    \/ play_internal
    \/ append_samples_internal
    \/ Resume
    \/ ThreadExit
    \/ output_callback

PlaySpec == Init /\ [][PlayNext]_vars

\* The Play handler builds its output stream in this step.
PlayBuilds == thread.pc = "play_build" /\ thread'.pc = "play_start"

\* The Play handler returns Ok in this step.
PlayReturnsOk == thread.pc = "play_start" /\ thread'.pc = "recv" /\ LastApplied'.result = "Ok"

\* C27: a successful Play(path).  At no time do two output streams exist:
\* the previous stream was dropped before the new one is built.  When the
\* new stream is built, before its first callback, the sample buffer holds
\* only the new track's samples, the cursor is 0, is_playing = true,
\* track_finished = false and
\* duration = buffer.len() / (out_rate * out_channels).  When Play returns,
\* the buffer and the duration are the same and the one stream is the new
\* one; is_playing = true and track_finished = false unless the new stream's
\* callback has by then played the buffer to its end.
C27_PlayInstallsNewTrack ==
    [][/\ ~(stream' # NoStream /\ thread'.built)
       /\ PlayBuilds =>
             /\ stream = NoStream
             /\ callback.pc = "idle"
             /\ callback'.data = <<>>
             /\ sample_buffer' = DecodedSamples(thread.cmd.path)
             /\ buffer_position' = 0
             /\ state'.is_playing
             /\ ~state'.track_finished
             /\ state'.duration = Rat(Len(sample_buffer'),
                                      output_sample_rate' * output_channels')
       /\ PlayReturnsOk =>
             /\ stream' # NoStream
             /\ sample_buffer' = DecodedSamples(thread.cmd.path)
             /\ state'.duration = Rat(Len(sample_buffer'),
                                      output_sample_rate' * output_channels')
             /\ state'.current_track = thread.cmd.path
             /\ \/ state'.is_playing /\ ~state'.track_finished
                \/ buffer_position' >= Len(sample_buffer')]_vars

\* Play of the chunk file has returned Ok after a Play of the track file
\* that returned Ok: one stream, the chunk's samples only, the cursor at 0.
C27_SecondPlayReturned ==
    /\ thread.pc = "recv"
    /\ Len(applied) >= 2
    /\ applied[1].cmd = AudioCommand("Play", TrackFile, 0)
    /\ applied[1].result = "Ok"
    /\ applied[2].cmd = AudioCommand("Play", ChunkFile, 0)
    /\ applied[2].result = "Ok"
    /\ stream # NoStream
    /\ sample_buffer = DecodedSamples(ChunkFile)
    /\ buffer_position = 0
    /\ state.is_playing
    /\ ~state.track_finished

\* The handler of a Play or an AppendSamples returns an error in this step.
HandlerReturnsErr ==
    /\ applied' # applied
    /\ LastApplied'.cmd.op \in {"Play", "AppendSamples"}
    /\ LastApplied'.result \notin {"Ok", "running"}

\* C28: when a Play or AppendSamples command fails for any reason (file
\* missing, unsupported format, decode error, no device, device config
\* error, output stream build or start failure), the audio thread keeps
\* running, at recv() for the next command, and is_playing is false after
\* the failed command.
C28_FailedCommandLeavesStopped ==
    [][HandlerReturnsErr =>
          /\ thread'.pc = "recv"
          /\ ~state'.is_playing]_vars

\* Play has failed at the build of its output stream and the thread is back
\* at recv(): no stream exists and is_playing is true.
C28_BuildFailedStillPlaying ==
    /\ thread.pc = "recv"
    /\ applied # <<>>
    /\ LastApplied.cmd.op = "Play"
    /\ LastApplied.result = "StreamBuild"
    /\ stream = NoStream
    /\ ~thread.built
    /\ state.is_playing

\* C29: a playback command that fails in the audio thread returns its error
\* to the caller: for every Play or AppendSamples whose handler returned an
\* error (FileNotFound, UnsupportedFormat, ...), the caller of play /
\* play_chunk / append_chunk got that error and not success.
C29_HandlerErrorReachesCaller ==
    \A i \in 1..Len(applied) :
        (applied[i].cmd.op \in {"Play", "AppendSamples"}
            /\ applied[i].result \notin {"Ok", "running"}) =>
                /\ sent[i].ret # "Ok"
                /\ sent[i].ret = applied[i].result

\* Play of the missing file and AppendSamples of the garbled file have
\* failed in the audio thread, and both callers got Ok.
C29_ErrorsLoggedCallersGotOk ==
    /\ Len(applied) >= 2
    /\ applied[1].cmd = AudioCommand("Play", MissingFile, 0)
    /\ applied[1].result = "FileNotFound"
    /\ sent[1].ret = "Ok"
    /\ applied[2].cmd = AudioCommand("AppendSamples", GarbledFile, 0)
    /\ applied[2].result = "Decode"
    /\ sent[2].ret = "Ok"

\* A track is loaded, its stream exists, and playback is paused: not
\* playing, not finished.
Paused == stream # NoStream /\ ~state.is_playing /\ ~state.track_finished

\* C30: the engine leaves the Paused state for Playing only on Resume (or
\* a new Play): an AppendSamples processed while paused extends the buffer
\* but leaves is_playing = false.
C30_PausedUntilResume ==
    [][/\ (Paused /\ state'.is_playing) => (Resume \/ play_internal)
       /\ (Paused /\ append_samples_internal) =>
             /\ IsPrefix(sample_buffer, sample_buffer')
             /\ ~state'.is_playing]_vars

\* Play, Pause and AppendSamples have been processed, no Resume was sent,
\* the buffer holds the appended samples, and is_playing is true.
C30_AppendResumedPlayback ==
    /\ thread.pc = "recv"
    /\ Len(applied) = 3
    /\ applied[1].cmd.op = "Play"
    /\ applied[1].result = "Ok"
    /\ applied[2].cmd.op = "Pause"
    /\ applied[3].cmd.op = "AppendSamples"
    /\ applied[3].result = "Ok"
    /\ Len(sample_buffer) > thread.old_len
    /\ stream # NoStream
    /\ state.is_playing

(***************************************************************************)
(* ConfigSpec: the device negotiation of play_internal applied to every    *)
(* source format and every list of supported config ranges within the      *)
(* bounds.                                                                 *)
(***************************************************************************)
ChannelCounts == {1, 2, 6}

\* The ranges a device may report: min_sample_rate <= max_sample_rate.
ConfigRanges ==
    {c \in [channels : ChannelCounts, min_sample_rate : 1..MaxRate,
            max_sample_rate : 1..MaxRate] : c.min_sample_rate <= c.max_sample_rate}

ConfigLists == UNION {[1..n -> ConfigRanges] : n \in 0..MaxConfigs}

\* The default config of a device: none, or a surround config at the highest rate.
DefaultConfigs == {NoConfig, [channels |-> 6, sample_rate |-> MaxRate]}

\* A source and a device the negotiation has not been applied to yet.
NewNegotiation(supported_configs, default_config, sample_rate, channels) ==
    [supported_configs |-> supported_configs, default_config |-> default_config,
     sample_rate |-> sample_rate, channels |-> channels, op |-> "none",
     config |-> NoConfig, err |-> "none", resampled |-> FALSE, rechanneled |-> FALSE]

ConfigInit ==
    /\ NewCache
    /\ \E l \in ConfigLists, d \in DefaultConfigs, r \in 1..MaxRate, c \in ChannelCounts :
          plan = NewNegotiation(l, d, r, c)

\* play_internal from the choice of the config to the final samples:
\* resample_audio is called when the sample rates differ, convert_channels
\* when the channel counts differ; an error of the default lookup returns
\* before either.
Negotiate ==
    /\ plan.op = "none"
    /\ LET config == StreamConfig(plan.supported_configs, plan.default_config,
                                  plan.sample_rate, plan.channels)
       IN  plan' = [plan EXCEPT
                       !.op = "config",
                       !.err = config.err,
                       !.config = [channels |-> config.channels,
                                   sample_rate |-> config.sample_rate],
                       !.resampled = config.err = "none" /\ plan.sample_rate # config.sample_rate,
                       !.rechanneled = config.err = "none" /\ plan.channels # config.channels]
    /\ UNCHANGED <<streamVars, audioVars, lockVars>>

ConfigSpec == ConfigInit /\ [][Negotiate]_vars

\* The cases of the negotiation, read off the ranges of the device.
SomeCovers(channels) ==
    \E i \in 1..Len(plan.supported_configs) :
        Covers(plan.supported_configs[i], channels, plan.sample_rate)

Candidates ==
    {i \in 1..Len(plan.supported_configs) :
        plan.supported_configs[i].channels \in {plan.channels, 2}}

\* C31: the negotiation picks (1) the source's channels and rate when a range
\* with the source's channel count covers the rate, else (2) stereo at the
\* source's rate when a stereo range covers it, else (3) the largest
\* max_sample_rate among the ranges with the source's channel count or two
\* channels, with the channel count of a range that has it, else (4) the
\* device default, failing only when that lookup fails; the samples are
\* resampled iff the chosen rate differs from the source's and rechanneled iff
\* the chosen channel count differs, so that case (1) applies neither.
C31_NegotiationPriority ==
    plan.op = "config" =>
        /\ plan.err # "none" =>
              /\ ~SomeCovers(plan.channels) /\ ~SomeCovers(2) /\ Candidates = {}
              /\ plan.default_config = NoConfig
        /\ plan.err = "none" =>
              /\ IF SomeCovers(plan.channels)
                 THEN /\ plan.config = [channels |-> plan.channels,
                                        sample_rate |-> plan.sample_rate]
                      /\ ~plan.resampled /\ ~plan.rechanneled
                 ELSE IF SomeCovers(2)
                 THEN plan.config = [channels |-> 2, sample_rate |-> plan.sample_rate]
                 ELSE IF Candidates # {}
                 THEN /\ \A i \in Candidates :
                            plan.supported_configs[i].max_sample_rate <= plan.config.sample_rate
                      /\ \E i \in Candidates :
                            /\ plan.supported_configs[i].max_sample_rate = plan.config.sample_rate
                            /\ plan.supported_configs[i].channels = plan.config.channels
                 ELSE plan.config = plan.default_config
              /\ plan.resampled <=> plan.config.sample_rate # plan.sample_rate
              /\ plan.rechanneled <=> plan.config.channels # plan.channels

\* C31 witness: a mono source on a device with a stereo range that covers its
\* rate and a mono range that does not: stereo at the source's rate was
\* chosen, and the samples were rechanneled and not resampled.
C31_StereoAtSourceRate ==
    /\ plan.op = "config" /\ plan.err = "none"
    /\ plan.channels = 1
    /\ ~SomeCovers(1) /\ SomeCovers(2)
    /\ \E i \in 1..Len(plan.supported_configs) : plan.supported_configs[i].channels = 1
    /\ plan.config = [channels |-> 2, sample_rate |-> plan.sample_rate]
    /\ plan.rechanneled /\ ~plan.resampled

\* The step in which the fetch of p has dealt with a failed segment GET:
\* download_chunk returns the error to its caller, a worker leaves its
\* failure branch.
FailureHandled(p) ==
    IF p \in Workers
    THEN fetch[p].pc = "wfail" /\ fetch'[p].pc = "pick"
    ELSE fetch[p].pc = "segments" /\ fetch'[p].pc \in {"idle", "rem_loop"}

\* C32: when the fetch of a segment of chunk i fails, in download_chunk or in
\* a worker, then once the failure is dealt with the stream state is as it
\* was (the chunk is not marked ready, is_complete is not changed) and the
\* temp file of the chunk is removed.
C32_FailedFetchRemovesTemp ==
    [][\A p \in DcTasks \cup Workers :
          FailureHandled(p) =>
              /\ progressive_streams' = progressive_streams
              /\ TempPath(fetch[p].chunk) \notin DOMAIN files']_vars

\* C32 witness: start_progressive_stream has returned the error of chunk 0,
\* whose temp file is still in the cache directory.
C32_TempLeftAfterFailure ==
    /\ start_call.result = "ChunkFailed"
    /\ fetch["start"].pc = "idle"
    /\ Exists(TempPath(0))

\* start_progressive_stream has returned an error to its caller.
StartReturnsErr ==
    /\ fetch["start"].pc = "idle"
    /\ start_call.result \notin {"none", "pending", "Ok"}

\* C35: start_progressive_stream is all-or-nothing: when the first command on
\* a cache without a stream is a start_progressive_stream that returns an
\* error, whatever the reason, no stream state is installed.
C35_FailedStartInstallsNothing ==
    (calls = 1 /\ StartReturnsErr) => ~has_active_stream

\* C35 witness: the only command so far, a start_progressive_stream, has
\* returned the error of the fetch of chunk 0, and the stream state it
\* inserted before that fetch is installed, with no chunk ready.
C35_StreamLeftByFailedStart ==
    /\ calls = 1
    /\ StartReturnsErr
    /\ start_call.result = "ChunkFailed"
    /\ has_active_stream
    /\ Stream.chunks = <<>>

(***************************************************************************)
(* LockSpec: the locks of the program.  Each thread runs the lock          *)
(* operations of its code in the order of the code; a guard is released    *)
(* where it is dropped.  parking_lot's RwLock admits several readers or    *)
(* one writer; the mutexes admit one holder.                               *)
(***************************************************************************)
Acq(lock, mode) == [op |-> "acquire", lock |-> lock, mode |-> mode]
Rel(lock) == [op |-> "release", lock |-> lock, mode |-> "none"]
\* Dropping the cpal stream waits until its callback is not running.
DropStream == [op |-> "join", lock |-> "none", mode |-> "none"]

\* The output callback: buffer read guard for the whole call, cursor write
\* guard until drop(pos), state read guard until drop(state_read), then the
\* state write guard until the closure returns.
CallbackLocks ==
    <<Acq("sample_buffer", "read"), Acq("buffer_position", "write"), Acq("state", "read"),
      Rel("state"), Rel("buffer_position"), Acq("state", "write"), Rel("state"),
      Rel("sample_buffer")>>

\* play_internal: stop_internal, then the stores of the samples, the cursor
\* and the state, each guard a temporary or a block of its own.
StopLocks == <<DropStream, Acq("state", "write"), Rel("state")>>

PlayLocks ==
    StopLocks \o
    <<Acq("sample_buffer", "write"), Rel("sample_buffer"),
      Acq("buffer_position", "write"), Rel("buffer_position"),
      Acq("state", "write"), Rel("state")>>

\* append_samples_internal: the extend under the write guard, the length
\* under a read guard dropped before the state write guard is taken.
AppendLocks ==
    <<Acq("sample_buffer", "write"), Rel("sample_buffer"),
      Acq("sample_buffer", "read"), Rel("sample_buffer"),
      Acq("state", "write"), Rel("state")>>

\* seek_internal: the state read guard is dropped before the cursor is written.
SeekLocks ==
    <<Acq("state", "read"), Rel("state"),
      Acq("buffer_position", "write"), Rel("buffer_position"),
      Acq("state", "write"), Rel("state")>>

\* Pause, Resume and SetVolume: one write of the state.
StateWriteLocks == <<Acq("state", "write"), Rel("state")>>

\* get_playback_state: the engine's mutex, and under it get_state().
GetStateLocks ==
    <<Acq("audio_engine", "mutex"), Acq("state", "read"), Rel("state"), Rel("audio_engine")>>

\* A command that sends to the audio thread holds the engine's mutex; an
\* operation of the coordinator holds the mutex of the streams.
EngineCommandLocks == <<Acq("audio_engine", "mutex"), Rel("audio_engine")>>
CoordinatorLocks == <<Acq("progressive_streams", "mutex"), Rel("progressive_streams")>>

\* A faulty worker: the second worker takes the two locks of the pick in
\* the opposite order.
WorkerLocksOpposed(w) ==
    (IF w = "w1"
     THEN <<Acq("progressive_streams", "mutex"), Acq("downloading_chunks", "mutex"),
            Rel("downloading_chunks"), Rel("progressive_streams")>>
     ELSE <<Acq("downloading_chunks", "mutex"), Acq("progressive_streams", "mutex"),
            Rel("progressive_streams"), Rel("downloading_chunks")>>) \o
    <<Acq("downloading_chunks", "mutex"), Rel("downloading_chunks"),
      Acq("progressive_streams", "mutex"), Rel("progressive_streams")>>

\* One turn of a worker's loop: the pick under the in-flight set's lock and,
\* inside it, the streams' mutex; after the fetch the in-flight set alone,
\* then the streams alone.
WorkerLocks(w) ==
    <<Acq("downloading_chunks", "mutex"), Acq("progressive_streams", "mutex"),
      Rel("progressive_streams"), Rel("downloading_chunks"),
      Acq("downloading_chunks", "mutex"), Rel("downloading_chunks"),
      Acq("progressive_streams", "mutex"), Rel("progressive_streams")>>

\* The code each thread may run.
Programs(t) ==
    IF t = "callback" THEN {CallbackLocks}
    ELSE IF t = "audio_thread"
    THEN {PlayLocks, AppendLocks, SeekLocks, StopLocks, StateWriteLocks}
    ELSE IF t = "get_state" THEN {GetStateLocks}
    ELSE IF t = "command" THEN {EngineCommandLocks, CoordinatorLocks}
    ELSE {WorkerLocks(t)}

IsLocking(t) == locking[t] # NotLocking
NextOp(t) == locking[t].prog[locking[t].pc]
Wants(t, lock, mode) ==
    IsLocking(t) /\ NextOp(t) = Acq(lock, mode)

\* The thread after its next lock operation.
Advanced(t) ==
    IF locking[t].pc = Len(locking[t].prog)
    THEN NotLocking
    ELSE [locking[t] EXCEPT !.pc = @ + 1]

\* A holder of the lock stands in the way of taking it in this mode.
Conflicts(lock, mode) ==
    \E h \in held[lock] : mode # "read" \/ h.mode # "read"

\* The thread starts to run code of its own.  The callback runs only while
\* a stream exists: not after the audio thread has dropped it in Play or Stop.
Begin(t) ==
    /\ ~IsLocking(t)
    /\ t = "callback" =>
          ~(IsLocking("audio_thread") /\ locking["audio_thread"].prog \in {PlayLocks, StopLocks}
            /\ locking["audio_thread"].pc > 1)
    /\ \E prog \in Programs(t) : locking' = [locking EXCEPT ![t] = [prog |-> prog, pc |-> 1]]
    /\ UNCHANGED held
    /\ UNCHANGED <<streamVars, audioVars, plan>>

Acquire(t) ==
    /\ IsLocking(t)
    /\ NextOp(t).op = "acquire"
    /\ ~Conflicts(NextOp(t).lock, NextOp(t).mode)
    /\ held' = [held EXCEPT ![NextOp(t).lock] =
                   @ \cup {[thread |-> t, mode |-> NextOp(t).mode]}]
    /\ locking' = [locking EXCEPT ![t] = Advanced(t)]
    /\ UNCHANGED <<streamVars, audioVars, plan>>

Release(t) ==
    /\ IsLocking(t)
    /\ NextOp(t).op = "release"
    /\ held' = [held EXCEPT ![NextOp(t).lock] = {h \in @ : h.thread # t}]
    /\ locking' = [locking EXCEPT ![t] = Advanced(t)]
    /\ UNCHANGED <<streamVars, audioVars, plan>>

JoinCallback(t) ==
    /\ IsLocking(t)
    /\ NextOp(t).op = "join"
    /\ ~IsLocking("callback")
    /\ locking' = [locking EXCEPT ![t] = Advanced(t)]
    /\ UNCHANGED held
    /\ UNCHANGED <<streamVars, audioVars, plan>>

LockNext ==
    \/ \E t \in Threads : Begin(t)
    \/ \E t \in Threads : Acquire(t)
    \/ \E t \in Threads : Release(t)
    \/ JoinCallback("audio_thread")

LockSpec == Init /\ [][LockNext]_vars

Holds(t, lock, mode) == [thread |-> t, mode |-> mode] \in held[lock]

\* C33: the output callback never holds a write lock on the sample buffer,
\* the cursor or the playback state: it holds read locks only, and none
\* when it is not running.
C33_CallbackTakesNoWriteLock ==
    /\ \A lock \in {"sample_buffer", "buffer_position", "state"} :
          ~Holds("callback", lock, "write")
    /\ ~IsLocking("callback") => \A lock \in Locks : \A h \in held[lock] : h.thread # "callback"

\* C33 witness: the callback holds the write lock of the playback state
\* while the audio thread, in a Pause, Resume or SetVolume, waits to write it.
C33_CallbackHoldsStateWriteLock ==
    /\ Holds("callback", "state", "write")
    /\ Holds("callback", "sample_buffer", "read")
    /\ locking["audio_thread"] = [prog |-> StateWriteLocks, pc |-> 1]

\* The thread t cannot go on before u does: u holds, in a conflicting mode,
\* the lock t is about to take; or t is about to read a lock that u waits to
\* write (a parked writer is served before new readers); or t is dropping
\* the stream while its callback runs.
WaitsFor(t, u) ==
    /\ IsLocking(t)
    /\ \/ /\ NextOp(t).op = "acquire"
          /\ \E h \in held[NextOp(t).lock] :
                h.thread = u /\ (NextOp(t).mode # "read" \/ h.mode # "read")
       \/ /\ NextOp(t).op = "acquire" /\ NextOp(t).mode = "read"
          /\ u # t
          /\ Wants(u, NextOp(t).lock, "write")
          /\ Conflicts(NextOp(t).lock, "write")
       \/ /\ NextOp(t).op = "join"
          /\ u = "callback" /\ IsLocking("callback")

\* C40: the system is deadlock-free: in no interleaving of the callback, the
\* handlers of the audio thread, the get_state callers, the two workers and
\* the operations of the coordinator do threads wait on each other's locks in
\* a cycle: every set of waiting threads has a member that waits for none of
\* the set.
C40_NoLockCycle ==
    \A waiting \in SUBSET {t \in Threads : \E u \in Threads : WaitsFor(t, u)} :
        waiting # {} => \E t \in waiting : \A u \in waiting : ~WaitsFor(t, u)

\* C40 witness: chains of waiting threads on both sides.  The first worker
\* holds the in-flight set and waits for the streams' mutex, held by a
\* coordinator operation, and the second worker waits for the in-flight set;
\* the callback holds the buffer's read lock and waits to write the state,
\* which a get_state caller is reading, and the audio thread waits in an
\* append to write the buffer.
C40_ThreadsWaitInChains ==
    /\ WaitsFor("w1", "w0") /\ WaitsFor("w0", "command")
    /\ WaitsFor("audio_thread", "callback") /\ WaitsFor("callback", "get_state")
    /\ locking["audio_thread"].prog = AppendLocks

\* C34: every index in download_queue and every chunk index a task is
\* fetching is below total_chunks, and chunks[] has no entry past it, also
\* after reprioritize_for_seek with a target of total_chunks or more.
C34_QueuedChunksInRange ==
    has_active_stream =>
        /\ \A k \in 1..Len(Stream.download_queue) :
              Stream.download_queue[k] < total_chunks(Stream)
        /\ \A p \in Tasks : fetch[p].chunk # NoChunk => fetch[p].chunk < total_chunks(Stream)
        /\ Len(Stream.chunks) <= total_chunks(Stream)

\* C34 witness: after a seek to a target past the last chunk the queue holds
\* an index that is no chunk of the stream, and a worker that picked it has
\* panicked on the slice of its segments.
C34_WorkerPickedChunkPastEnd ==
    /\ has_active_stream
    /\ Stream.priority_chunk > total_chunks(Stream)
    /\ \E k \in 1..Len(Stream.download_queue) :
          Stream.download_queue[k] >= total_chunks(Stream)
    /\ \E w \in Workers : fetch[w].pc = "panicked"

\* The fetch of p was started for a stream state other than the one now
\* installed: a worker's snapshot holds other media urls, a download_chunk
\* holds a segment range that is not the chunk's range in this state.
StartedForEarlierStream(p) ==
    /\ has_active_stream
    /\ IF p \in Workers
       THEN mt_call.media_urls # Stream.media_urls
       ELSE <<fetch[p].start, fetch[p].end>> # get_chunk_segment_range(Stream, fetch[p].chunk)

\* C36: a worker or a fetch started for an earlier stream of the track id
\* never writes a chunk entry, nor is_complete, into a later stream state
\* installed for the same id: its state update leaves that state as it is.
C36_EarlierFetchLeavesLaterStream ==
    [][\A p \in Workers \cup DcTasks :
          (/\ fetch[p].pc \in {"wupdate", "update"}
           /\ fetch'[p].pc # fetch[p].pc
           /\ StartedForEarlierStream(p))
              => progressive_streams' = progressive_streams]_vars

\* C36 witness: the installed stream has a ready chunk whose recorded
\* segments are not the chunk's segments in this stream: it was fetched from
\* the media urls of the stream a second start_progressive_stream replaced.
C36_ChunkOfEarlierStreamReady ==
    /\ has_active_stream
    /\ start_call.result = "Ok"
    /\ calls = MaxCalls
    /\ \E i \in 0..(Len(Stream.chunks) - 1) :
          /\ IsReady(Stream, i)
          /\ <<At(Stream.chunks, i).segment_start, At(Stream.chunks, i).segment_end>>
                # get_chunk_segment_range(Stream, i)

\* C37: whenever the audio thread waits for its next command, is_playing
\* implies that an output stream exists: a Resume or an AppendSamples handled
\* with no stream does not leave is_playing = true.
C37_PlayingImpliesStream ==
    (thread.pc = "recv" /\ state.is_playing) => stream # NoStream

\* C37 witness: a Resume was the first command of a new engine; the thread
\* is back at recv with is_playing = true, no track and no stream.
C37_ResumedWithoutStream ==
    /\ thread.pc = "recv"
    /\ Len(applied) = 1
    /\ applied[1].cmd.op = "Resume"
    /\ stream = NoStream
    /\ state.current_track = NoTrack
    /\ state.is_playing

\* The step in which a call of the output callback returns.
CallbackReturns == callback.pc = "filled" /\ callback'.pc = "idle"

\* C38: when a call of the output callback has returned, track_finished
\* implies that is_playing is false, also after a Resume issued when the
\* track had finished.
C38_FinishedImpliesNotPlaying ==
    [][CallbackReturns => (state'.track_finished => ~state'.is_playing)]_vars

\* C38 witness: after Play ran to the end of the track a Resume was handled;
\* a call of the callback that started after it filled its slice with
\* silence and returned, and the state still says is_playing with
\* track_finished.
C38_ResumedAtEndStillPlaying ==
    /\ Len(applied) = 2
    /\ applied[1].cmd.op = "Play" /\ applied[1].result = "Ok"
    /\ applied[2].cmd.op = "Resume"
    /\ thread.pc = "recv"
    /\ callback.pc = "idle"
    /\ callback.finished_this_frame
    /\ buffer_position = Len(sample_buffer)
    /\ state.position = state.duration
    /\ state.is_playing
    /\ state.track_finished

\* C39: the cursor is a multiple of the output channel count whenever a
\* call of the output callback starts, whatever Play, Seek and AppendSamples
\* came before.
C39_CursorFrameAligned ==
    [][(callback.pc = "idle" /\ callback'.pc = "filled") =>
          buffer_position % callback.channel_count = 0]_vars

\* C39 witness: after Play of the stereo track and a Seek to half a second
\* the cursor is odd, and the callback has put the sample of the right
\* channel of the first frame into the left slot of its slice.
C39_ChannelsSwappedAfterSeek ==
    /\ Len(applied) = 2
    /\ applied[1].cmd.op = "Play" /\ applied[1].result = "Ok"
    /\ applied[2].cmd.op = "Seek"
    /\ callback.pc = "filled"
    /\ callback.channel_count = 2
    /\ buffer_position % 2 = 1
    /\ callback.data # <<>>
    /\ callback.data[1] = At(sample_buffer, 1) * state.volume

====
